---- MODULE Spec2Model ----
(***************************************************************************)
(* Video metadata and transcript acquisition pipeline of MujahidRakibSuite *)
(* (services/youtubeService.ts, tools/YouTubeScraper.tsx and the settings  *)
(* dialog components/ApiKeyManager.tsx).                                   *)
(*                                                                         *)
(* Text is modelled as a sequence of tokens: a token is an indivisible     *)
(* piece of a JavaScript string, so that s.startsWith(p) is "p is a prefix *)
(* of s" and the marker "Error:" (tokens "Error", ":") is distinguishable  *)
(* from the bare word "Error".                                             *)
(***************************************************************************)
EXTENDS Integers, Sequences, FiniteSets, TLC

VARIABLES
    \* ---- React state of YouTubeScraper (src/tools/YouTubeScraper.tsx:61-89)
    youtubeApiKey, rapidApiKey, supadataApiKey, transcriptProvider,
    supadataUsage, rapidApiUsage,
    results, loading, isProcessComplete, error, progress, logs,
    cancelledIds,
    \* ---- the prop toolType === 'transcript'
    isTranscript,
    \* ---- localStorage entries supadata_usage / rapid_usage
    storage,
    \* ---- the handleScrape invocation in progress (its closure and locals)
    pc, run, currentUsageCount, updatedVideos, i,
    \* ---- handleRetryVideo invocations awaiting fetchTranscript
    retries,
    \* ---- the last handler step taken, and the runs started (observation only)
    lastCall, runs,
    \* ---- one call of the router fetchTranscript (SpecRouter)
    rIn, rOut

vars == <<youtubeApiKey, rapidApiKey, supadataApiKey, transcriptProvider,
          supadataUsage, rapidApiUsage,
          results, loading, isProcessComplete, error, progress, logs,
          cancelledIds, isTranscript, storage, pc, run, currentUsageCount, updatedVideos, i,
          retries, lastCall, runs, rIn, rOut>>

-----------------------------------------------------------------------------
(* Bounds *)

MaxVideos == 2        \* records a metadata phase returns at most
MaxRuns == 1          \* runs started at most
MaxRetries == 1       \* retries in flight at the same time at most
MaxLog == 7           \* log lines kept at most (user actions stop beyond)
MaxIds == 120         \* ids handed to getVideoDetails at most
MaxUrls == 3          \* input lines handed to fetchBatchVideos at most
MaxRanked == 3        \* records handed to the ranking transform at most
MaxPending == 1       \* non-terminal job-status responses before the terminal one, beyond maxAttempts

-----------------------------------------------------------------------------
(* Text *)

IsWs(t) == t \in {" ", "\n"}

StartsWith(s, p) == Len(s) >= Len(p) /\ SubSeq(s, 1, Len(p)) = p

\* s.replace(/\s+/g, ' ')
RECURSIVE CollapseWs(_)
CollapseWs(s) ==
    IF s = <<>> THEN <<>>
    ELSE IF IsWs(Head(s))
         THEN IF Len(s) > 1 /\ IsWs(s[2]) THEN CollapseWs(Tail(s))
              ELSE <<" ">> \o CollapseWs(Tail(s))
         ELSE <<Head(s)>> \o CollapseWs(Tail(s))

RECURSIVE TrimLeft(_)
TrimLeft(s) == IF s # <<>> /\ IsWs(Head(s)) THEN TrimLeft(Tail(s)) ELSE s

RECURSIVE TrimRight(_)
TrimRight(s) ==
    IF s # <<>> /\ IsWs(s[Len(s)]) THEN TrimRight(SubSeq(s, 1, Len(s) - 1)) ELSE s

\* s.trim()
Trim(s) == TrimRight(TrimLeft(s))

\* items.join(" ")
RECURSIVE Join(_)
Join(ss) ==
    IF ss = <<>> THEN <<>>
    ELSE IF Len(ss) = 1 THEN ss[1]
    ELSE ss[1] \o <<" ">> \o Join(Tail(ss))

-----------------------------------------------------------------------------
(* JSON values the transcript providers answer with *)

\* a value of the field "content": undefined, null, a string, an array of
\* timed segments, or an object with an optional text / nested transcript
CUndefined == [t |-> "undefined"]
CNull == [t |-> "null"]
CString(s) == [t |-> "string", s |-> s]
CArray(segs) == [t |-> "array", segs |-> segs]
CObject(text, transcript) == [t |-> "object", text |-> text, transcript |-> transcript]

\* JavaScript truthiness of a content value
Truthy(c) == ~(c.t \in {"undefined", "null"} \/ (c.t = "string" /\ c.s = <<>>))

\* item.text || item.snippet || ""
SegText(seg) == IF seg.text # <<>> THEN seg.text ELSE seg.snippet

RECURSIVE normalizeTranscriptText(_)
normalizeTranscriptText(content) ==
    IF ~Truthy(content) THEN <<>>
    ELSE IF content.t = "string" THEN Trim(CollapseWs(content.s))
    ELSE IF content.t = "array"
         THEN Trim(CollapseWs(Join([k \in 1..Len(content.segs) |-> SegText(content.segs[k])])))
    ELSE IF content.text # <<>> THEN content.text
    ELSE IF Truthy(content.transcript) THEN normalizeTranscriptText(content.transcript)
    ELSE <<"{json}">>

\* a parsed JSON body: an object, a top-level array of segments, or null
DObject(content, message, err, jobId, status) ==
    [kind |-> "object", content |-> content, message |-> message, error |-> err,
     jobId |-> jobId, status |-> status]
DArray(segs) == [kind |-> "array", segs |-> segs]
DNull == [kind |-> "null"]

JsonBody(data) == [json |-> TRUE, data |-> data]
RawBody == [json |-> FALSE]

\* an HTTP response, or a fetch() that rejects (transport failure)
Response(status, body) == [transport |-> FALSE, status |-> status, body |-> body]
TransportFailure == [transport |-> TRUE]

\* response.ok
Ok(response) == response.status \in 200..299

Returned(v) == [threw |-> FALSE, val |-> v]
Threw(message) == [threw |-> TRUE, val |-> message]

StatusText(status) ==
    CASE status = 401 -> <<"Unauthorized", " ", "(401) - Check API Key">>
      [] status = 403 -> <<"Forbidden", " ", "(403) - Quota or Key issue">>
      [] status = 404 -> <<"Not Found (404)">>
      [] status = 500 -> <<"Server Error (500)">>
      [] status = 502 -> <<"Bad Gateway (502) - Service overloaded">>

\* the parsed body, or the thrown message
safeJsonFetch_no401(response, errorPrefix) ==
    IF response.status \in {403, 404, 500, 502}
    THEN Threw(<<errorPrefix, ":", " ">> \o StatusText(response.status))
    ELSE IF response.body.json THEN Returned(response.body.data)
    ELSE Threw(<<errorPrefix, ":", " ", "Invalid JSON response. Raw: ...">>)

safeJsonFetch(response, errorPrefix) ==
    IF response.status \in {401, 403, 404, 500, 502}
    THEN Threw(<<errorPrefix, ":", " ">> \o StatusText(response.status))
    ELSE IF response.body.json THEN Returned(response.body.data)
    ELSE Threw(<<errorPrefix, ":", " ", "Invalid JSON response. Raw: ...">>)

\* reading a property of null throws a TypeError
NullDeref == Threw(<<"Cannot read properties of null">>)

\* data.message || fallback, data.error || fallback
OrElse(s, fallback) == IF s # <<>> THEN s ELSE fallback

fetchTranscriptRapid(remote) ==
    IF remote.response.transport THEN Threw(<<"Failed to fetch">>)
    ELSE LET parsed == safeJsonFetch(remote.response, "RapidAPI")
             data == parsed.val
         IN  IF parsed.threw THEN parsed
             ELSE IF data.kind = "null" THEN NullDeref
             ELSE IF ~Ok(remote.response)
                  THEN Threw(IF data.kind = "object"
                             THEN OrElse(data.message, <<"RapidAPI Error", " ", "status">>)
                             ELSE <<"RapidAPI Error", " ", "status">>)
             ELSE IF data.kind = "object" /\ data.content.t = "array"
                  THEN Returned(normalizeTranscriptText(data.content))
             ELSE IF data.kind = "array"
                  THEN Returned(normalizeTranscriptText(CArray(data.segs)))
             ELSE Returned(<<"Unexpected response format from RapidAPI">>)

maxAttempts == 30

\* the k-th job-status response (k = 1, 2, ...) of the remote
PollResponse(remote, k) ==
    IF k <= remote.pending
    THEN Response(200, JsonBody(DObject(CUndefined, <<>>, <<>>, <<>>, "queued")))
    ELSE remote.terminal

\* while (attempts < maxAttempts)
PollAgain_extra(attempts) == attempts <= maxAttempts

PollAgain(attempts) == attempts < maxAttempts

\* data.status === 'completed'
JobCompleted_misspelt(data) == data.status = "complete"

JobCompleted(data) == data.status = "completed"

\* the outcome, with the number of status requests issued
RECURSIVE pollLoop(_, _)
pollLoop(remote, attempts) ==
    IF ~PollAgain(attempts)
    THEN [threw |-> TRUE, val |-> <<"Supadata transcription timed out.">>, requests |-> attempts]
    ELSE LET response == PollResponse(remote, attempts + 1)
             parsed == safeJsonFetch(response, "Supadata Poll")
             data == parsed.val
             at(o) == [threw |-> o.threw, val |-> o.val, requests |-> attempts + 1]
         IN  IF response.transport THEN at(Threw(<<"Failed to fetch">>))
             ELSE IF parsed.threw THEN at(parsed)
             ELSE IF data.kind = "null" THEN at(NullDeref)
             ELSE IF data.kind = "object" /\ JobCompleted(data)
                  THEN at(Returned(normalizeTranscriptText(data.content)))
             ELSE IF data.kind = "object" /\ data.status = "failed"
                  THEN at(Threw(OrElse(data.error, <<"Supadata transcription job failed.">>)))
             ELSE pollLoop(remote, attempts + 1)

pollSupadataJob(remote) == pollLoop(remote, 0)

Plain(o) == [threw |-> o.threw, val |-> o.val]

fetchTranscriptSupadata(remote) ==
    IF remote.response.transport THEN Threw(<<"Failed to fetch">>)
    ELSE IF remote.response.status = 202
    THEN LET parsed == safeJsonFetch(remote.response, "Supadata (Async)")
             data == parsed.val
         IN  IF parsed.threw THEN parsed
             ELSE IF data.kind = "null" THEN NullDeref
             ELSE IF data.kind # "object" \/ data.jobId = <<>>
                  THEN Threw(<<"Received 202 but no jobId from Supadata.">>)
             ELSE Plain(pollSupadataJob(remote))
    ELSE LET parsed == safeJsonFetch(remote.response, "Supadata")
             data == parsed.val
         IN  IF parsed.threw THEN parsed
             ELSE IF data.kind = "null" THEN NullDeref
             ELSE IF ~Ok(remote.response)
                  THEN Threw(IF data.kind = "object"
                             THEN OrElse(data.message, OrElse(data.error, <<"Supadata Error", " ", "status">>))
                             ELSE <<"Supadata Error", " ", "status">>)
             ELSE IF data.kind = "object" /\ data.content.t \notin {"undefined", "null"}
                  THEN Returned(normalizeTranscriptText(data.content))
             ELSE Threw(<<"Unexpected response format from Supadata.">>)

\* the router: the text it resolves to (it has no other outcome)
fetchTranscript(provider, apiKey, remote) ==
    LET o == IF provider = "rapid-api"
             THEN IF apiKey = "" THEN Threw(<<"RapidAPI Key is required.">>)
                  ELSE fetchTranscriptRapid(remote)
             ELSE IF provider = "supadata"
             THEN IF apiKey = "" THEN Threw(<<"Supadata API Key is required.">>)
                  ELSE fetchTranscriptSupadata(remote)
             ELSE Threw(<<"Invalid Transcription Provider selected.">>)
    IN  IF o.threw THEN <<"Error", ":", " ">> \o o.val ELSE o.val

-----------------------------------------------------------------------------
(* The remote behaviours one router call is checked against *)

Segments == <<[text |-> <<"hello">>, snippet |-> <<>>], [text |-> <<>>, snippet |-> <<"world", "\n">>]>>

Contents ==
    {CUndefined, CNull, CString(<<>>), CString(<<" ", "hello", " ", "\n", "world">>),
     CString(<<"Error", " ", "talk">>), CArray(<<>>), CArray(Segments),
     CObject(<<"hello">>, CUndefined), CObject(<<>>, CString(<<"hello">>)),
     CObject(<<>>, CUndefined)}

Messages == {<<>>, <<"quota exceeded">>}

Statuses == {200, 202, 400, 401, 403, 404, 500, 502}

InitialBodies ==
    {RawBody, JsonBody(DNull), JsonBody(DArray(<<>>)), JsonBody(DArray(Segments))}
    \cup {JsonBody(DObject(c, m, <<>>, j, "")) :
            c \in Contents, m \in Messages, j \in {<<>>, <<"job1">>}}
    \cup {JsonBody(DObject(CUndefined, <<>>, <<"no captions">>, <<>>, ""))}

TerminalPolls ==
    {TransportFailure}
    \cup {Response(st, RawBody) : st \in {200, 401, 403}}
    \cup {Response(200, JsonBody(DNull))}
    \cup {Response(200, JsonBody(DObject(c, <<>>, e, <<>>, js))) :
            c \in {CUndefined, CString(<<>>), CString(<<"polled", " ", " ", "text">>)},
            e \in {<<>>, <<"no captions">>},
            js \in {"completed", "failed", "active"}}

PendingCounts == {0, 1, maxAttempts - 1} \cup (maxAttempts .. (maxAttempts + MaxPending))

NoPolls == [pending |-> 0, terminal |-> TransportFailure]

Remote(response, polls) ==
    [response |-> response, pending |-> polls.pending, terminal |-> polls.terminal]

\* does the initial response open an asynchronous job?
OpensJob(response) ==
    /\ ~response.transport
    /\ response.status = 202
    /\ response.body.json
    /\ response.body.data.kind = "object"
    /\ response.body.data.jobId # <<>>

InitialResponses ==
    {TransportFailure} \cup {Response(st, b) : st \in Statuses, b \in InitialBodies}

Remotes ==
    {Remote(r, NoPolls) : r \in {q \in InitialResponses : ~OpensJob(q)}}
    \cup {Remote(r, [pending |-> k, terminal |-> t]) :
            r \in {q \in InitialResponses : OpensJob(q) /\ q.body.data.message = <<>>
                        /\ q.body.data.content \in {CUndefined, CArray(Segments)}},
            k \in PendingCounts, t \in TerminalPolls}

Providers == {"supadata", "rapid-api"}

RouterInputs ==
    [provider : Providers \cup {"other"}, apiKey : {"", "key"}, remote : Remotes]

-----------------------------------------------------------------------------
(* The orchestrator: state of the YouTubeScraper component *)

\* the ceilings written into handleScrape, handleRetryVideo and handleSave
SupadataCeiling == 100
RapidCeiling == 20

Min(a, b) == IF a < b THEN a ELSE b
Max(a, b) == IF a > b THEN a ELSE b

Ceiling(provider) == IF provider = "supadata" THEN SupadataCeiling ELSE RapidCeiling

\* the counter of a provider, as the handlers read it
Usage(provider) == IF provider = "supadata" THEN supadataUsage ELSE rapidApiUsage

Cancelled == <<"Cancelled">>

\* the ids a metadata phase returns records for, in order
VideoIds == [k \in 1..MaxVideos |-> <<"v", k>>]

\* contentDetails.duration as the videos endpoint reports it: P[nD]T[nH][nM][nS]
Duration(d, h, m, sec) == [d |-> d, h |-> h, m |-> m, s |-> sec]

\* PT1M, PT1M1S, PT59S, PT1H, P1DT1S
Durations == <<Duration(0, 0, 1, 0), Duration(0, 0, 1, 1), Duration(0, 0, 0, 59),
               Duration(0, 1, 0, 0), Duration(1, 0, 0, 1)>>

DurationOf(id) == Durations[(id[2] % Len(Durations)) + 1]

\* the record getVideoDetails makes of an item of the videos endpoint
VideoData(id) ==
    [id |-> id, title |-> <<"title of", id>>, duration |-> DurationOf(id), transcript |-> <<>>]

-----------------------------------------------------------------------------
(* Metadata acquisition: parseDurationToSeconds, extractVideoId,            *)
(* getVideoDetails, fetchChannelVideos, fetchBatchVideos                    *)

\* duration.match(/PT(\d+H)?(\d+M)?(\d+S)?/): a duration with a day part has
\* no "PT" in it and parses to 0
parseDurationToSeconds(duration) ==
    IF duration.d > 0 THEN 0
    ELSE duration.h * 3600 + duration.m * 60 + duration.s

\* an input line: its form, the id-like word in it (name: its first 11
\* characters; extra: how many characters it has beyond 11, -1 when fewer)
Url(form, name, extra) == [form |-> form, name |-> name, extra |-> extra]

NoVideoId == <<>>

\* the forms the main pattern knows: youtube.com/ followed by watch?v=,
\* shorts/, embed/, v/ or live/, and youtu.be/
PatternForms == {"watch", "shorts", "embed", "v", "live", "youtu.be"}

\* the 11-character id, or null
extractVideoId_unanchored(url) ==
    IF url.form = "empty" THEN NoVideoId
    ELSE IF url.form \in PatternForms /\ url.extra >= 0 THEN <<url.name, 11>>
    ELSE IF url.form = "bare" /\ url.extra >= 0 THEN <<url.name, 11>>
    ELSE IF url.form = "legacy" /\ url.extra >= 0 THEN <<url.name, 11>>
    ELSE NoVideoId

extractVideoId(url) ==
    IF url.form = "empty" THEN NoVideoId
    ELSE IF url.form \in PatternForms /\ url.extra >= 0 THEN <<url.name, 11>>
    ELSE IF url.form = "bare" /\ url.extra = 0 THEN <<url.name, 11>>
    ELSE IF url.form = "legacy" /\ url.extra >= 0 THEN <<url.name, 11>>
    ELSE NoVideoId

\* API limit is 50 per call
ChunkSize == 50

\* videoIds.slice(i, i + 50), start being i + 1
Chunk_overlap(videoIds, start) ==
    SubSeq(videoIds, start, Min(Len(videoIds), start + ChunkSize))

Chunk(videoIds, start) ==
    SubSeq(videoIds, start, Min(Len(videoIds), start + ChunkSize - 1))

\* for (let i = 0; i < videoIds.length; i += 50) chunks.push(...)
RECURSIVE chunksFrom(_, _)
chunksFrom(videoIds, start) ==
    IF start > Len(videoIds) THEN <<>>
    ELSE <<Chunk(videoIds, start)>> \o chunksFrom(videoIds, start + ChunkSize)

\* the videos endpoint: it has no item for an id whose number is a multiple
\* of remote.drop, answers request remote.noItems without an items field,
\* and request remote.failing does not complete
VideosRemote(drop, noItems, failing) == [drop |-> drop, noItems |-> noItems, failing |-> failing]

ItemsOf(chunk, remote) ==
    LET found(id) == remote.drop = 0 \/ id[2] % remote.drop # 0
    IN  SelectSeq(chunk, found)

\* for (const chunk of chunks): the requests issued and the items gathered
RECURSIVE fetchChunks(_, _, _, _)
fetchChunks(chunks, remote, j, acc) ==
    IF j > Len(chunks) THEN acc
    ELSE LET requests == Append(acc.requests, chunks[j])
         IN  IF remote.failing = j
             THEN [threw |-> TRUE, message |-> "Failed to fetch", requests |-> requests,
                   items |-> <<>>]
             ELSE fetchChunks(chunks, remote, j + 1,
                              [acc EXCEPT !.requests = requests,
                                          !.items = IF remote.noItems = j THEN @
                                                    ELSE @ \o ItemsOf(chunks[j], remote)])

\* the outcome: thrown or not, the requests issued (the ids of each), the
\* records returned
getVideoDetails(videoIds, remote) ==
    IF Len(videoIds) = 0
    THEN [threw |-> FALSE, message |-> "", requests |-> <<>>, videos |-> <<>>]
    ELSE LET got == fetchChunks(chunksFrom(videoIds, 1), remote, 1,
                                [threw |-> FALSE, message |-> "", requests |-> <<>>,
                                 items |-> <<>>])
         IN  [threw |-> got.threw, message |-> got.message, requests |-> got.requests,
              videos |-> [k \in 1..Len(got.items) |-> VideoData(got.items[k])]]

\* the filter of fetchChannelVideos
matchesType_strict(videoType, seconds) ==
    IF videoType = "short" THEN seconds < 60
    ELSE IF videoType = "video" THEN seconds > 60
    ELSE TRUE

matchesType(videoType, seconds) ==
    IF videoType = "short" THEN seconds <= 60
    ELSE IF videoType = "video" THEN seconds > 60
    ELSE TRUE

\* the channel: whether its handle resolves, what the search answers, and
\* how many videos it has (the search returns the maxResults most viewed)
ChannelRemote(resolves, search, total, videos) ==
    [resolves |-> resolves, search |-> search, total |-> total, videos |-> videos]

\* the outcome, with the maxResults of the search request (0: none issued)
fetchChannelVideos(limit, videoType, remote) ==
    IF ~remote.resolves
    THEN [threw |-> TRUE, message |-> "Channel not found for handle", maxResults |-> 0,
          requests |-> <<>>, videos |-> <<>>]
    ELSE LET searchLimit == Min(50, Max(limit * 3, 20))
             found == Min(searchLimit, remote.total)
             videoIds == [k \in 1..found |-> <<"v", k>>]
             detailed == getVideoDetails(videoIds, remote.videos)
             keep(video) == matchesType(videoType, parseDurationToSeconds(video.duration))
             filtered == SelectSeq(detailed.videos, keep)
         IN  IF remote.search = "error"
             THEN [threw |-> TRUE, message |-> "quota exceeded", maxResults |-> searchLimit,
                   requests |-> <<>>, videos |-> <<>>]
             ELSE IF remote.search = "empty" \/ found = 0
             THEN [threw |-> FALSE, message |-> "", maxResults |-> searchLimit,
                   requests |-> <<>>, videos |-> <<>>]
             ELSE IF detailed.threw
             THEN [threw |-> TRUE, message |-> detailed.message, maxResults |-> searchLimit,
                   requests |-> detailed.requests, videos |-> <<>>]
             ELSE [threw |-> FALSE, message |-> "", maxResults |-> searchLimit,
                   requests |-> detailed.requests,
                   videos |-> SubSeq(filtered, 1, Min(limit, Len(filtered)))]

\* Array.from(new Set(ids)): the first occurrence of each id, in order
unique_none(ids) == ids

unique(ids) ==
    LET first(k) == \A j \in 1..(k - 1) : ids[j] # ids[k]
        RECURSIVE from(_)
        from(k) == IF k > Len(ids) THEN <<>>
                   ELSE (IF first(k) THEN <<ids[k]>> ELSE <<>>) \o from(k + 1)
    IN  from(1)

fetchBatchVideos(urls, remote) ==
    LET resolved == [k \in 1..Len(urls) |-> extractVideoId(urls[k])]
        notNull(id) == id # NoVideoId
        ids == SelectSeq(resolved, notNull)
        uniqueIds == unique(ids)
    IN  IF Len(uniqueIds) = 0
        THEN [threw |-> TRUE,
              message |-> "No valid YouTube video IDs found. Check your links (Supports: watch, shorts, share links).",
              requests |-> <<>>, videos |-> <<>>]
        ELSE getVideoDetails(uniqueIds, remote)

-----------------------------------------------------------------------------
(* resolveChannelId.  An input is the sequence of its parts between         *)
(* slashes, cleanInput.split('/'); the empty string has the one part "".    *)

\* a channel id of 24 characters that starts with "UC"
ChannelId == "UCxxxxxxxxxxxxxxxxxxxxxx"

\* cleanInput.startsWith('UC') && cleanInput.length === 24
IsChannelIdShape(parts) == Len(parts) = 1 /\ parts[1] = ChannelId

\* cleanInput.includes('youtube.com/')
IncludesYoutube(parts) ==
    \E k \in 1..(Len(parts) - 1) : parts[k] \in {"youtube.com", "www.youtube.com"}

\* p.startsWith('@')
StartsWithAt(part) == part \in {"@handle", "@other"}

\* parts.indexOf(part), 1-based, 0 when there is none
IndexOf(parts, part) ==
    IF \E k \in 1..Len(parts) : parts[k] = part
    THEN CHOOSE k \in 1..Len(parts) : parts[k] = part /\ \A j \in 1..(k - 1) : parts[j] # part
    ELSE 0

\* parts[k], undefined (falsy, like "") beyond the end
PartAt(parts, k) == IF k \in 1..Len(parts) THEN parts[k] ELSE ""

\* parts.find(p => p.startsWith('@')) || parts[parts.length - 1]
AtOrLast(parts) ==
    IF \E k \in 1..Len(parts) : StartsWithAt(parts[k])
    THEN parts[CHOOSE k \in 1..Len(parts) :
                   StartsWithAt(parts[k]) /\ \A j \in 1..(k - 1) : ~StartsWithAt(parts[j])]
    ELSE parts[Len(parts)]

\* the handle of a URL: the segment behind "channel" is looked at only when
\* the first choice is empty
urlHandle(parts) ==
    IF AtOrLast(parts) = "" /\ IndexOf(parts, "channel") # 0
    THEN PartAt(parts, IndexOf(parts, "channel") + 1)
    ELSE AtOrLast(parts)

\* what the search is asked for: a URL's handle, or the whole input
handleOf(parts) == IF IncludesYoutube(parts) THEN <<urlHandle(parts)>> ELSE parts

NoQuery == <<>>

\* the channel search answers with items, with an empty list of items, or
\* with a body that has no items
resolveChannelId(parts, search) ==
    IF IsChannelIdShape(parts)
    THEN [threw |-> FALSE, message |-> "", query |-> NoQuery, channelId |-> parts[1]]
    ELSE IF handleOf(parts) = <<"">>
    THEN [threw |-> TRUE, message |-> "Invalid channel URL or handle", query |-> NoQuery,
          channelId |-> ""]
    ELSE IF search # "items"
    THEN [threw |-> TRUE, message |-> "Channel not found for handle", query |-> handleOf(parts),
          channelId |-> ""]
    ELSE [threw |-> FALSE, message |-> "", query |-> handleOf(parts), channelId |-> ChannelId]

-----------------------------------------------------------------------------
(* The ranking transform of the analysis modes (handleScrape)               *)

\* the statistics of a metadata record, with its age at the time of the
\* run in minutes (negative: publishedAt lies ahead of the clock)
Metrics(views, likes, comments, ageMinutes) ==
    [viewCount |-> views, likeCount |-> likes, commentCount |-> comments,
     ageMinutes |-> ageMinutes]

\* Math.max(1, (now - published) / 3600000), in minutes
hoursAge_unfloored(ageMinutes) == Max(1, ageMinutes)

hoursAge(ageMinutes) == Max(60, ageMinutes)

\* likes * 5 + comments * 10
engagementWeight(video) == video.likeCount * 5 + video.commentCount * 10

\* rawScore = (views + engagementWeight) / hoursAge, kept as the fraction
\* of points per minute of age
viralityScore(video) ==
    [points |-> video.viewCount + engagementWeight(video),
     minutes |-> hoursAge(video.ageMinutes)]

\* the sign of x - y for two scores
ScoreDiff(x, y) == x.points * y.minutes - y.points * x.minutes

\* (a, b) => (b.viralityScore || 0) - (a.viralityScore || 0)
compareFn(a, b) == ScoreDiff(b.viralityScore, a.viralityScore)

\* Array.prototype.sort is stable: a record goes behind every record the
\* comparator does not put after it
RECURSIVE InsertSorted(_, _)
InsertSorted(sorted, video) ==
    IF sorted = <<>> THEN <<video>>
    ELSE IF compareFn(sorted[1], video) <= 0
         THEN <<sorted[1]>> \o InsertSorted(Tail(sorted), video)
         ELSE <<video>> \o sorted

RECURSIVE sort(_)
sort(videos) ==
    IF videos = <<>> THEN <<>>
    ELSE InsertSorted(sort(SubSeq(videos, 1, Len(videos) - 1)), videos[Len(videos)])

\* metadataVideos.map(video => ({...video, viralityScore})).sort(...)
rankVideos(metadataVideos) ==
    sort([k \in 1..Len(metadataVideos) |->
            [id |-> metadataVideos[k].id, stats |-> metadataVideos[k].stats,
             viralityScore |-> viralityScore(metadataVideos[k].stats)]])

-----------------------------------------------------------------------------

\* what the remote does for one transcript fetch of the orchestrator
FetchRemotes ==
    { Remote(Response(200, JsonBody(DObject(CArray(Segments), <<>>, <<>>, <<>>, ""))), NoPolls),
      Remote(Response(403, RawBody), NoPolls),
      Remote(Response(200, JsonBody(DObject(CArray(<<>>), <<>>, <<>>, <<>>, ""))), NoPolls),
      Remote(Response(202, JsonBody(DObject(CUndefined, <<>>, <<>>, <<"job1">>, ""))),
             [pending |-> 1,
              terminal |-> Response(200, JsonBody(DObject(CString(<<"hello", " ", "world">>),
                                                          <<>>, <<>>, <<>>, "completed")))]) }

\* transcript.startsWith("Error") || startsWith("API Error") || startsWith("Request Failed")
isError(transcript) ==
    \/ StartsWith(transcript, <<"Error">>)
    \/ StartsWith(transcript, <<"API Error">>)
    \/ StartsWith(transcript, <<"Request Failed">>)

Log(msg, item, id) == [msg |-> msg, item |-> item, id |-> id]

NoId == <<>>
NoRun == [transcriptProvider |-> "", currentApiKey |-> "", usage |-> 0]
\* a handler step: its name, the id it is about, whether it dispatched a
\* transcript request, and the provider it counted a success for ("": none)
Call(op, id, fetch) == [op |-> op, id |-> id, fetch |-> fetch, counted |-> ""]
Counted(op, id, provider) == [op |-> op, id |-> id, fetch |-> FALSE, counted |-> provider]

SetTranscript_all(videos, videoId, transcript) ==
    [k \in 1..Len(videos) |-> [videos[k] EXCEPT !.transcript = transcript]]

\* prev.map(v => v.id === videoId ? { ...v, transcript } : v)
SetTranscript(videos, videoId, transcript) ==
    [k \in 1..Len(videos) |->
        IF videos[k].id = videoId THEN [videos[k] EXCEPT !.transcript = transcript]
        ELSE videos[k]]

\* results.findIndex(v => v.id === videoId), 0 when there is none
FindIndex(videos, videoId) ==
    IF \E k \in 1..Len(videos) : videos[k].id = videoId
    THEN CHOOSE k \in 1..Len(videos) :
            /\ videos[k].id = videoId
            /\ \A j \in 1..(k - 1) : videos[j].id # videoId
    ELSE 0

\* 10 + Math.floor(((i + 1) / n) * 90), done being i + 1
LoopProgress_countdown(done, n) == 10 + (((n - done) * 90) \div n)

LoopProgress(done, n) == 10 + ((done * 90) \div n)

routerVars == <<rIn, rOut>>
otherVars == <<isTranscript, runs, routerVars>>
keyVars == <<youtubeApiKey, rapidApiKey, supadataApiKey>>
usageVars == <<supadataUsage, rapidApiUsage, storage>>
runVars == <<pc, run, currentUsageCount, updatedVideos, i>>

\* handleSupadataUsageChange / handleRapidUsageChange: state and localStorage
UsageChange(provider, val) ==
    IF provider = "supadata"
    THEN /\ supadataUsage' = val
         /\ rapidApiUsage' = rapidApiUsage
         /\ storage' = [storage EXCEPT !.supadata_usage = val]
    ELSE /\ rapidApiUsage' = val
         /\ supadataUsage' = supadataUsage
         /\ storage' = [storage EXCEPT !.rapid_usage = val]

RouterIdle ==
    /\ rIn = [provider |-> "other", apiKey |-> "", remote |-> Remote(TransportFailure, NoPolls)]
    /\ rOut = [done |-> FALSE, text |-> <<>>, requests |-> 0]

\* a first start: nothing in localStorage
OrchestratorIdle ==
    /\ youtubeApiKey = "" /\ rapidApiKey = "" /\ supadataApiKey = ""
    /\ transcriptProvider = "supadata"
    /\ supadataUsage = 0 /\ rapidApiUsage = 0
    /\ storage = [supadata_usage |-> 0, rapid_usage |-> 0]
    /\ results = <<>> /\ loading = FALSE /\ isProcessComplete = FALSE
    /\ error = "" /\ progress = 0 /\ logs = <<>>
    /\ cancelledIds = {}
    /\ isTranscript \in BOOLEAN
    /\ pc = "idle" /\ run = NoRun /\ currentUsageCount = 0
    /\ updatedVideos = <<>> /\ i = 0
    /\ retries = <<>>
    /\ lastCall = Call("mount", NoId, FALSE)
    /\ runs = 0

Init == OrchestratorIdle /\ RouterIdle

-----------------------------------------------------------------------------
(* handleScrape *)

\* supadataUsage >= 100, rapidApiUsage >= 20
UsageLimitReached_strict(provider) == Usage(provider) > Ceiling(provider)

UsageLimitReached(provider) == Usage(provider) >= Ceiling(provider)

\* the message of the first failing pre-check, "" when all pass
preCheck(inputBlank) ==
    IF youtubeApiKey = "" THEN "Please enter a YouTube Data API Key in the settings."
    ELSE IF inputBlank THEN "Please provide the required input."
    ELSE IF ~isTranscript THEN ""
    ELSE IF transcriptProvider = "rapid-api" /\ rapidApiKey = ""
         THEN "Please enter a RapidAPI Key in settings to use the RapidAPI service."
    ELSE IF transcriptProvider = "supadata" /\ supadataApiKey = ""
         THEN "Please enter a Supadata API Key in settings to use the Supadata service."
    ELSE IF transcriptProvider = "supadata" /\ UsageLimitReached("supadata")
         THEN "Supadata usage limit (100) reached. Reset count in settings or upgrade."
    ELSE IF transcriptProvider = "rapid-api" /\ UsageLimitReached("rapid-api")
         THEN "RapidAPI usage limit (20) reached. Reset count in settings or upgrade."
    ELSE ""

\* the form is rendered, and its button enabled, only when no run is in
\* progress and the completion panel is not shown
CanSubmit == pc = "idle" /\ ~loading /\ ~isProcessComplete

\* a pre-check fails: the handler sets the error and returns
ScrapeRefused(inputBlank) ==
    /\ CanSubmit
    /\ preCheck(inputBlank) # ""
    /\ error' = preCheck(inputBlank)
    /\ lastCall' = Call("handleScrape", NoId, FALSE)
    /\ UNCHANGED <<keyVars, transcriptProvider, usageVars, results, loading,
                   isProcessComplete, progress, logs, cancelledIds, runVars, retries, otherVars>>

StartLogs == <<Log("Starting process...", 0, NoId), Log("PHASE 1: Fetching Video Metadata...", 0, NoId)>>

\* the tabs of the tool: ScrapeMode, by toolType
Modes ==
    IF isTranscript THEN {"single-video", "multi-channel", "single-channel"}
    ELSE {"analyze-single", "analyze-multi"}

\* the input field, by what the resolvers make of it: no id or handle in it, a
\* URL or handle, a bare channel id (UC + 22 characters)
Inputs == {"unresolvable", "url", "channelId"}

\* setProgress(prev => Math.min(prev + 5, maxMetadataProgress))
onMetadataProgress(prev, mode) ==
    Min(prev + 5, IF mode \in {"analyze-single", "analyze-multi"} THEN 50 ELSE 10)

\* the error thrown before the first request, "" when the input resolves
InputError(mode, input) ==
    IF mode \in {"single-video", "analyze-single"}
    THEN IF input = "url" THEN "" ELSE "Invalid Video URL format."
    ELSE IF mode \in {"multi-channel", "analyze-multi"}
    THEN IF input = "url" THEN ""
         ELSE "No valid YouTube video IDs found. Check your links (Supports: watch, shorts, share links)."
    ELSE IF input = "unresolvable" THEN "Invalid channel URL or handle" ELSE ""

\* the request the metadata phase first suspends at
FirstRequest(mode, input) ==
    IF mode = "single-channel"
    THEN IF input = "channelId" THEN "search" ELSE "resolveChannelId"
    ELSE "getVideoDetails"

\* the progress published when the metadata phase first suspends: 5, raised
\* by each onProgress call made before that
FirstProgress(mode, input) ==
    IF mode \in {"single-video", "analyze-single"} THEN 5
    ELSE IF mode \in {"multi-channel", "analyze-multi"}
    THEN onMetadataProgress(onMetadataProgress(5, mode), mode)
    ELSE IF input = "channelId" THEN onMetadataProgress(onMetadataProgress(5, mode), mode)
    ELSE onMetadataProgress(5, mode)

\* the catch and finally blocks
Abort_keepsProgress(message) ==
    /\ error' = message
    /\ progress' = progress
    /\ loading' = FALSE
    /\ pc' = "idle" /\ run' = NoRun /\ currentUsageCount' = 0
    /\ updatedVideos' = <<>> /\ i' = 0
    /\ lastCall' = Call("abort", NoId, FALSE)

Abort(message) ==
    /\ error' = message
    /\ progress' = 0
    /\ loading' = FALSE
    /\ pc' = "idle" /\ run' = NoRun /\ currentUsageCount' = 0
    /\ updatedVideos' = <<>> /\ i' = 0
    /\ lastCall' = Call("abort", NoId, FALSE)

\* the run starts in the mode of the selected tab (switchMode is offered only
\* while no run is in progress) and suspends at the first metadata request, or
\* aborts on an input that fails before any request
\* cancelledIdsRef.current.clear()
clear_nothing(ids) == ids

clear(ids) == {}

ScrapeStart(mode, input) ==
    /\ CanSubmit
    /\ runs < MaxRuns
    /\ preCheck(FALSE) = ""
    /\ isProcessComplete' = FALSE
    /\ results' = <<>>
    /\ cancelledIds' = clear(cancelledIds)
    /\ IF InputError(mode, input) # ""
       THEN /\ Abort(InputError(mode, input))
            /\ logs' = StartLogs \o <<Log("ERROR", 0, NoId)>>
       ELSE /\ error' = ""
            /\ logs' = StartLogs
            /\ progress' = FirstProgress(mode, input)
            /\ loading' = TRUE
            /\ pc' = FirstRequest(mode, input)
            /\ run' = [transcriptProvider |-> transcriptProvider,
                       currentApiKey |-> IF transcriptProvider = "rapid-api"
                                         THEN rapidApiKey ELSE supadataApiKey,
                       usage |-> Usage(transcriptProvider)]
            /\ UNCHANGED <<currentUsageCount, updatedVideos, i>>
            /\ lastCall' = Call("handleScrape", NoId, FALSE)
    /\ runs' = runs + 1
    /\ UNCHANGED <<keyVars, transcriptProvider, usageVars, isTranscript, retries, routerVars>>

\* fetchChannelVideos: the channel search of resolveChannelId answers
ResolveReturn(found) ==
    /\ pc = "resolveChannelId"
    /\ IF found
       THEN /\ progress' = onMetadataProgress(progress, "single-channel")
            /\ pc' = "search"
            /\ lastCall' = Call("metadata", NoId, FALSE)
            /\ UNCHANGED <<error, logs, loading, run, currentUsageCount, updatedVideos, i>>
       ELSE /\ Abort("Channel not found for handle")
            /\ logs' = Append(logs, Log("ERROR", 0, NoId))
    /\ UNCHANGED <<keyVars, transcriptProvider, usageVars, results, isProcessComplete,
                   cancelledIds, retries, otherVars>>

\* fetchChannelVideos: the video search answers with an error, with no items
\* or with candidate ids
SearchReturn(answer) ==
    /\ pc = "search"
    /\ IF answer = "items"
       THEN /\ progress' = onMetadataProgress(progress, "single-channel")
            /\ pc' = "getVideoDetails"
            /\ lastCall' = Call("metadata", NoId, FALSE)
            /\ UNCHANGED <<error, logs, loading, run, currentUsageCount, updatedVideos, i>>
       ELSE /\ Abort(IF answer = "error" THEN "quota exceeded"
                     ELSE "No videos found matching your criteria.")
            /\ logs' = Append(logs, Log("ERROR", 0, NoId))
    /\ UNCHANGED <<keyVars, transcriptProvider, usageVars, results, isProcessComplete,
                   cancelledIds, retries, otherVars>>

\* getVideoDetails fails, or the metadata phase returns n records
MetadataReturn(failed, n) ==
    /\ pc = "getVideoDetails"
    /\ IF failed \/ n = 0
       THEN /\ Abort(IF failed THEN "Failed to fetch"
                     ELSE "No videos found matching your criteria.")
            /\ logs' = Append(logs, Log("ERROR", 0, NoId))
            /\ UNCHANGED <<results, isProcessComplete>>
       ELSE LET metadataVideos == [k \in 1..n |-> VideoData(VideoIds[k])]
            IN  /\ results' = metadataVideos
                /\ error' = error
                /\ lastCall' = Call("metadata", NoId, FALSE)
                /\ IF isTranscript
                   THEN /\ logs' = Append(logs, Log("Data acquired", n, NoId))
                        /\ progress' = 10
                        /\ currentUsageCount' = run.usage
                        /\ updatedVideos' = metadataVideos
                        /\ i' = 1
                        /\ pc' = "loop"
                        /\ UNCHANGED <<run, loading, isProcessComplete>>
                   ELSE /\ logs' = logs \o <<Log("Data acquired", n, NoId),
                                             Log("Success! Process complete.", 0, NoId)>>
                        /\ progress' = 100
                        /\ isProcessComplete' = TRUE
                        /\ loading' = FALSE
                        /\ pc' = "idle" /\ run' = NoRun
                        /\ UNCHANGED <<currentUsageCount, updatedVideos, i>>
    /\ UNCHANGED <<keyVars, transcriptProvider, usageVars, cancelledIds, retries, otherVars>>

-----------------------------------------------------------------------------
(* handleScrape: the transcript loop.  The code between two awaits runs     *)
(* without interleaving: while pc = "loop" no other handler takes a step.   *)

\* cancelledIdsRef.current.has(video.id), before the fetch
SkipItem_never(videoId) == FALSE

SkipItem(videoId) == videoId \in cancelledIds

\* cancelledIdsRef.current.has(video.id), after the fetch
DiscardResult_never(videoId) == FALSE

DiscardResult(videoId) == videoId \in cancelledIds

\* currentUsageCount++
Incremented_twice(count) == count + 2

Incremented(count) == count + 1

\* the loop condition i < updatedVideos.length fails (index is 1-based here)
LoopDone_early(index, n) == index >= n

LoopDone(index, n) == index > n

\* updatedVideos[i] = { ...video, transcript }
StoreAt_fresh(videos, index, transcript) ==
    [k \in 1..Len(videos) |->
        [videos[k] EXCEPT !.transcript = IF k = index THEN transcript ELSE <<>>]]

StoreAt(videos, index, transcript) == [videos EXCEPT ![index].transcript = transcript]

\* the loop is at index i (1-based) and is not suspended
LoopTop ==
    /\ pc = "loop"
    /\ IF LoopDone(i, Len(updatedVideos))
       THEN \* the loop is over: completion and the finally block
            /\ logs' = Append(logs, Log("Success! Process complete.", 0, NoId))
            /\ isProcessComplete' = TRUE
            /\ loading' = FALSE
            /\ pc' = "idle" /\ run' = NoRun /\ currentUsageCount' = 0
            /\ updatedVideos' = <<>> /\ i' = 0
            /\ lastCall' = Call("complete", NoId, FALSE)
            /\ UNCHANGED <<results, progress>>
       ELSE IF SkipItem(updatedVideos[i].id)
       THEN \* cancelled before its turn: no fetch
            /\ updatedVideos' = StoreAt(updatedVideos, i, Cancelled)
            /\ results' = updatedVideos'
            /\ logs' = Append(logs, Log("Skipped (Cancelled)", i, NoId))
            /\ progress' = LoopProgress(i, Len(updatedVideos))
            /\ i' = i + 1
            /\ lastCall' = Call("skip", updatedVideos[i].id, FALSE)
            /\ UNCHANGED <<pc, run, currentUsageCount, isProcessComplete, loading>>
       ELSE \* suspend at the 500 ms delay that precedes the fetch
            /\ logs' = Append(logs, Log("Fetching transcript...", i, NoId))
            /\ pc' = "delay"
            /\ lastCall' = Call("delay", updatedVideos[i].id, FALSE)
            /\ UNCHANGED <<results, progress, run, currentUsageCount, updatedVideos, i,
                           isProcessComplete, loading>>
    /\ UNCHANGED <<keyVars, transcriptProvider, usageVars, error, cancelledIds,
                   retries, otherVars>>

\* const video = updatedVideos[i]
video_first == updatedVideos[1]

video == updatedVideos[i]

\* the delay is over: fetchTranscript is called for item i
FetchDispatch ==
    /\ pc = "delay"
    /\ pc' = "fetch"
    /\ lastCall' = Call("fetchTranscript", video.id, TRUE)
    /\ UNCHANGED <<keyVars, transcriptProvider, usageVars, results, loading,
                   isProcessComplete, error, progress, logs, cancelledIds, 
                   run, currentUsageCount, updatedVideos, i, retries, otherVars>>

\* fetchTranscript resolves for item i
FetchReturn(remote) ==
    /\ pc = "fetch"
    /\ LET transcript == fetchTranscript(run.transcriptProvider, run.currentApiKey, remote)
           n == Len(updatedVideos)
       IN  IF DiscardResult(updatedVideos[i].id)
           THEN /\ updatedVideos' = StoreAt(updatedVideos, i, Cancelled)
                /\ logs' = Append(logs, Log("Result discarded (Cancelled)", i, NoId))
                /\ lastCall' = Call("discard", updatedVideos[i].id, FALSE)
                /\ UNCHANGED <<usageVars, currentUsageCount>>
           ELSE /\ updatedVideos' = StoreAt(updatedVideos, i, transcript)
                /\ IF isError(transcript)
                   THEN /\ logs' = Append(logs, Log("Failed", i, NoId))
                        /\ lastCall' = Call("store", updatedVideos[i].id, FALSE)
                        /\ UNCHANGED <<usageVars, currentUsageCount>>
                   ELSE /\ logs' = Append(logs, Log("Success", i, NoId))
                        /\ lastCall' = Counted("store", updatedVideos[i].id, run.transcriptProvider)
                        /\ currentUsageCount' = Incremented(currentUsageCount)
                        /\ UsageChange(run.transcriptProvider,
                                       Min(Ceiling(run.transcriptProvider), currentUsageCount'))
    /\ results' = updatedVideos'
    /\ progress' = LoopProgress(i, Len(updatedVideos))
    /\ i' = i + 1
    /\ pc' = "loop"
    /\ UNCHANGED <<keyVars, transcriptProvider, loading, isProcessComplete, error,
                   cancelledIds, run, retries, otherVars>>

-----------------------------------------------------------------------------
(* The handlers the results table calls *)

\* no user event or promise continuation runs in the middle of the loop's
\* synchronous code
Interleavable == pc # "loop"

\* the row shows "Pending..." with its cancel button (transcript mode only)
IsPendingRow(k) == isTranscript /\ results[k].transcript = <<>>

\* the row shows an error with its retry button
IsErrorRow(k) == isTranscript /\ isError(results[k].transcript)

handleCancelVideo(videoId) ==
    /\ Interleavable
    /\ \E k \in 1..Len(results) : results[k].id = videoId /\ IsPendingRow(k)
    /\ Len(logs) < MaxLog
    /\ cancelledIds' = cancelledIds \cup {videoId}
    /\ results' = SetTranscript(results, videoId, Cancelled)
    /\ logs' = Append(logs, Log("Cancelled transcription for video ID", 0, videoId))
    /\ lastCall' = Call("handleCancelVideo", videoId, FALSE)
    /\ UNCHANGED <<keyVars, transcriptProvider, usageVars, loading, isProcessComplete,
                   error, progress, runVars, retries, otherVars>>

\* if (loading) return
RetryGuard_missing == TRUE

RetryGuard == ~loading

\* the synchronous part of handleRetryVideo, up to the await
handleRetryVideo(videoId) ==
    /\ Interleavable
    /\ \E k \in 1..Len(results) : results[k].id = videoId /\ IsErrorRow(k)
    /\ lastCall' = Call("handleRetryVideo", videoId,
                        RetryGuard /\ (IF transcriptProvider = "rapid-api"
                                       THEN rapidApiKey ELSE supadataApiKey) # "")
    /\ IF ~RetryGuard
       THEN UNCHANGED <<results, retries>>
       ELSE /\ Len(retries) < MaxRetries
            /\ results' = [results EXCEPT ![FindIndex(results, videoId)].transcript = <<>>]
            /\ retries' = Append(retries,
                                 [videoId |-> videoId,
                                  transcriptProvider |-> transcriptProvider,
                                  currentApiKey |-> IF transcriptProvider = "rapid-api"
                                                    THEN rapidApiKey ELSE supadataApiKey,
                                  usage |-> Usage(transcriptProvider)])
    /\ UNCHANGED <<keyVars, transcriptProvider, usageVars, loading, isProcessComplete,
                   error, progress, logs, cancelledIds, runVars, otherVars>>

RemoveAt(seq, k) == SubSeq(seq, 1, k - 1) \o SubSeq(seq, k + 1, Len(seq))

\* fetchTranscript resolves for the k-th retry in flight
RetryReturn(k, remote) ==
    /\ Interleavable
    /\ k \in 1..Len(retries)
    /\ LET r == retries[k]
           transcript == fetchTranscript(r.transcriptProvider, r.currentApiKey, remote)
           currentUsage == Incremented(r.usage)
       IN  /\ IF ~isError(transcript)
              THEN /\ UsageChange(r.transcriptProvider,
                                  Min(Ceiling(r.transcriptProvider), currentUsage))
                   /\ lastCall' = Counted("retryReturn", r.videoId, r.transcriptProvider)
              ELSE /\ UNCHANGED usageVars
                   /\ lastCall' = Call("retryReturn", r.videoId, FALSE)
           /\ results' = SetTranscript(results, r.videoId, transcript)
    /\ retries' = RemoveAt(retries, k)
    /\ UNCHANGED <<keyVars, transcriptProvider, loading, isProcessComplete, error,
                   progress, logs, cancelledIds, runVars, otherVars>>

handleStartAgain ==
    /\ Interleavable
    /\ isProcessComplete
    /\ isProcessComplete' = FALSE
    /\ lastCall' = Call("handleStartAgain", NoId, FALSE)
    /\ UNCHANGED <<keyVars, transcriptProvider, usageVars, results, loading, error,
                   progress, logs, cancelledIds, runVars, retries, otherVars>>

-----------------------------------------------------------------------------
(* The settings dialog (ApiKeyManager) *)

\* what the user types into a usage field: parseInt(value) || 0
SupadataInputs == {-1, SupadataCeiling + 1}
RapidInputs == {RapidCeiling - 1}

Keys == {"key"}

handleProviderChange(provider) ==
    /\ Interleavable
    /\ transcriptProvider' = provider
    /\ lastCall' = Call("handleProviderChange", NoId, FALSE)
    /\ UNCHANGED <<keyVars, usageVars, results, loading, isProcessComplete, error,
                   progress, logs, cancelledIds, runVars, retries, otherVars>>

\* the fields hold the current values unless the user typed others
handleSave(newYtKey, newRapidKey, newSupadataKey, localSupadataUsage, localRapidUsage) ==
    /\ Interleavable
    /\ youtubeApiKey' = newYtKey
    /\ rapidApiKey' = newRapidKey
    /\ supadataApiKey' = newSupadataKey
    /\ supadataUsage' = Min(SupadataCeiling, Max(0, localSupadataUsage))
    /\ rapidApiUsage' = Min(RapidCeiling, Max(0, localRapidUsage))
    /\ storage' = [supadata_usage |-> supadataUsage', rapid_usage |-> rapidApiUsage']
    /\ lastCall' = Call("handleSave", <<"usage", localSupadataUsage, localRapidUsage>>, FALSE)
    /\ UNCHANGED <<transcriptProvider, results, loading, isProcessComplete, error,
                   progress, logs, cancelledIds, runVars, retries, otherVars>>

-----------------------------------------------------------------------------
(* Specifications *)

Next ==
    \/ \E inputBlank \in BOOLEAN : ScrapeRefused(inputBlank)
    \/ \E mode \in Modes, input \in Inputs : ScrapeStart(mode, input)
    \/ \E found \in BOOLEAN : ResolveReturn(found)
    \/ \E answer \in {"error", "empty", "items"} : SearchReturn(answer)
    \/ \E failed \in BOOLEAN, n \in 0..MaxVideos : MetadataReturn(failed, n)
    \/ LoopTop
    \/ FetchDispatch
    \/ \E remote \in FetchRemotes : FetchReturn(remote)
    \/ \E k \in 1..MaxVideos : handleCancelVideo(VideoIds[k])
    \/ \E k \in 1..MaxVideos : handleRetryVideo(VideoIds[k])
    \/ \E k \in 1..MaxRetries, remote \in FetchRemotes : RetryReturn(k, remote)
    \/ handleStartAgain
    \/ \E provider \in Providers : handleProviderChange(provider)
    \/ \E y \in Keys : handleSave(y, rapidApiKey, supadataApiKey, supadataUsage, rapidApiUsage)
    \/ \E k \in Keys : handleSave(youtubeApiKey, k, k, supadataUsage, rapidApiUsage)
    \/ \E u \in SupadataInputs : handleSave(youtubeApiKey, rapidApiKey, supadataApiKey, u, rapidApiUsage)
    \/ \E v \in RapidInputs : handleSave(youtubeApiKey, rapidApiKey, supadataApiKey, supadataUsage, v)

Spec == Init /\ [][Next]_vars

\* a later start: the load effect finds the three keys and the provider
\* selection in localStorage
InitConfigured ==
    /\ youtubeApiKey \in Keys /\ rapidApiKey \in Keys /\ supadataApiKey \in Keys
    /\ transcriptProvider \in Providers
    /\ supadataUsage = 0 /\ rapidApiUsage = 0
    /\ storage = [supadata_usage |-> 0, rapid_usage |-> 0]
    /\ results = <<>> /\ loading = FALSE /\ isProcessComplete = FALSE
    /\ error = "" /\ progress = 0 /\ logs = <<>>
    /\ cancelledIds = {}
    /\ isTranscript \in BOOLEAN
    /\ pc = "idle" /\ run = NoRun /\ currentUsageCount = 0
    /\ updatedVideos = <<>> /\ i = 0
    /\ retries = <<>>
    /\ lastCall = Call("mount", NoId, FALSE)
    /\ runs = 0
    /\ RouterIdle

\* the tool with the settings dialog left closed
NextRun ==
    \/ \E inputBlank \in BOOLEAN : ScrapeRefused(inputBlank)
    \/ \E mode \in Modes, input \in Inputs : ScrapeStart(mode, input)
    \/ \E found \in BOOLEAN : ResolveReturn(found)
    \/ \E answer \in {"error", "empty", "items"} : SearchReturn(answer)
    \/ \E failed \in BOOLEAN, n \in 0..MaxVideos : MetadataReturn(failed, n)
    \/ LoopTop
    \/ FetchDispatch
    \/ \E remote \in FetchRemotes : FetchReturn(remote)
    \/ \E k \in 1..MaxVideos : handleCancelVideo(VideoIds[k])
    \/ \E k \in 1..MaxVideos : handleRetryVideo(VideoIds[k])
    \/ \E k \in 1..MaxRetries, remote \in FetchRemotes : RetryReturn(k, remote)
    \/ handleStartAgain
    \/ \E provider \in Providers : handleProviderChange(provider)

\* the loop's synchronous code runs on, the 500 ms timer fires, and every
\* transcript fetch of the batch returns
Fairness ==
    /\ WF_vars(LoopTop)
    /\ WF_vars(FetchDispatch)
    /\ WF_vars(\E remote \in FetchRemotes : FetchReturn(remote))

FairSpec == InitConfigured /\ [][NextRun]_vars /\ Fairness

\* the job-status requests a router call issues
\* the log of a run of two videos in which the first was cancelled before
\* its turn and the second failed
CancelledRunLogs ==
    StartLogs \o <<Log("Data acquired", 2, NoId),
                   Log("Cancelled transcription for video ID", 0, VideoIds[1]),
                   Log("Skipped (Cancelled)", 1, NoId),
                   Log("Fetching transcript...", 2, NoId), Log("Failed", 2, NoId),
                   Log("Success! Process complete.", 0, NoId)>>

\* the tool after such a run: the cancelled id is still in the cancelled set
InitRerun ==
    /\ youtubeApiKey \in Keys /\ rapidApiKey \in Keys /\ supadataApiKey \in Keys
    /\ transcriptProvider \in Providers
    /\ supadataUsage = 0 /\ rapidApiUsage = 0
    /\ storage = [supadata_usage |-> 0, rapid_usage |-> 0]
    /\ results = <<[VideoData(VideoIds[1]) EXCEPT !.transcript = Cancelled],
                   [VideoData(VideoIds[2]) EXCEPT
                       !.transcript = <<"Error", ":", " ", "Forbidden", " (Check API Key)">>]>>
    /\ loading = FALSE /\ isProcessComplete = TRUE
    /\ error = "" /\ progress = 100 /\ logs = CancelledRunLogs
    /\ cancelledIds = {VideoIds[1]}
    /\ isTranscript = TRUE
    /\ pc = "idle" /\ run = NoRun /\ currentUsageCount = 0
    /\ updatedVideos = <<>> /\ i = 0
    /\ retries = <<>>
    /\ lastCall = Call("complete", NoId, FALSE)
    /\ runs = 0
    /\ RouterIdle

\* the run that follows it, with the settings dialog left closed
SpecRerun == InitRerun /\ [][NextRun]_vars

statusRequests(provider, apiKey, remote) ==
    IF provider = "supadata" /\ apiKey # "" /\ OpensJob(remote.response)
    THEN pollSupadataJob(remote).requests
    ELSE 0

\* the log of a finished run of one video whose transcript fetch failed
FailedRunLogs ==
    StartLogs \o <<Log("Data acquired", 1, NoId), Log("Fetching transcript...", 1, NoId),
                   Log("Failed", 1, NoId), Log("Success! Process complete.", 0, NoId)>>

\* one call of the router, for every provider selector, credential and
\* remote: the call is the one a retry of the only record makes, after a run
\* of one video that failed (a selector outside the two providers is called
\* by no handler)
InitRouter ==
    /\ rIn \in RouterInputs
    /\ rOut = [done |-> FALSE, text |-> <<>>, requests |-> 0]
    /\ youtubeApiKey = "key"
    /\ rapidApiKey = (IF rIn.provider = "rapid-api" THEN rIn.apiKey ELSE "key")
    /\ supadataApiKey = (IF rIn.provider = "supadata" THEN rIn.apiKey ELSE "key")
    /\ transcriptProvider = (IF rIn.provider \in Providers THEN rIn.provider ELSE "supadata")
    /\ supadataUsage = 0 /\ rapidApiUsage = 0
    /\ storage = [supadata_usage |-> 0, rapid_usage |-> 0]
    /\ loading = FALSE /\ isProcessComplete = TRUE
    /\ error = "" /\ progress = 100 /\ logs = FailedRunLogs
    /\ cancelledIds = {}
    /\ isTranscript = TRUE
    /\ pc = "idle" /\ run = NoRun /\ currentUsageCount = 0
    /\ updatedVideos = <<>> /\ i = 0
    /\ IF rIn.provider \in Providers
       THEN /\ results = <<VideoData(VideoIds[1])>>
            /\ retries = <<[videoId |-> VideoIds[1], transcriptProvider |-> rIn.provider,
                            currentApiKey |-> rIn.apiKey, usage |-> 0]>>
            /\ lastCall = Call("handleRetryVideo", VideoIds[1], rIn.apiKey # "")
       ELSE /\ results = <<[VideoData(VideoIds[1]) EXCEPT !.transcript = <<"Error", ":", " ", "Forbidden">>]>>
            /\ retries = <<>>
            /\ lastCall = Call("complete", NoId, FALSE)
    /\ runs = 1

\* the router resolves
RouterCall ==
    /\ ~rOut.done
    /\ rOut' = [done |-> TRUE,
                text |-> fetchTranscript(rIn.provider, rIn.apiKey, rIn.remote),
                requests |-> statusRequests(rIn.provider, rIn.apiKey, rIn.remote)]
    /\ UNCHANGED <<keyVars, transcriptProvider, usageVars, results, loading,
                   isProcessComplete, error, progress, logs, cancelledIds, isTranscript,
                   runVars, retries, lastCall, runs, rIn>>

\* the retry that made the call goes on with the router's result
RouterRetry ==
    /\ rOut.done
    /\ RetryReturn(1, rIn.remote)

NextRouter == RouterCall \/ RouterRetry

SpecRouter == InitRouter /\ [][NextRouter]_vars

\* the inputs of the metadata functions
VideosRemotes == {VideosRemote(d, n, f) : d \in {0, 3}, n \in {0, 2}, f \in {0, 2}}

DetailsInputs ==
    [fn : {"getVideoDetails"},
     videoIds : {[k \in 1..n |-> <<"v", k>>] : n \in 0..MaxIds},
     remote : VideosRemotes]

\* the limit field holds 1..50 (handleLimitChange); these are the values
\* around which the search width changes
Limits == {1, 5, 6, 7, 16, 17, 50}

VideoTypes == {"video", "short", "any"}

ChannelInputs ==
    [fn : {"fetchChannelVideos"}, limit : Limits, videoType : VideoTypes,
     remote : {ChannelRemote(r, srch, t, v) :
                 r \in BOOLEAN, srch \in {"error", "empty", "items"}, t \in {0, 3, 60},
                 v \in {VideosRemote(0, 0, 0), VideosRemote(3, 0, 0), VideosRemote(0, 0, 1)}}]

\* watch?v=A, youtu.be/A, shorts/B followed by a 12th character, the bare id
\* A, a bare word of 12 characters, ?feature=x&v=B, watch?v= with 10
\* characters, a channel URL
UrlSet ==
    {Url("watch", "A", 0), Url("youtu.be", "A", 0), Url("shorts", "B", 1), Url("bare", "A", 0),
     Url("bare", "B", 1), Url("legacy", "B", 0), Url("watch", "A", -1), Url("channel", "A", 0)}

BatchInputs ==
    [fn : {"fetchBatchVideos"},
     urls : UNION {[1..n -> UrlSet] : n \in 1..MaxUrls},
     remote : {VideosRemote(0, 0, 0), VideosRemote(0, 0, 1)}]

\* statistics around the one-hour floor: 120 points aged 30 minutes, 120
\* points (100 views and 4 likes) aged 60 minutes, 240 points aged two
\* hours (all three score 120 an hour), one comment on a video dated ahead
\* of the clock, 600 points aged 90 minutes
MetricsSet ==
    {Metrics(120, 0, 0, 30), Metrics(100, 4, 0, 60), Metrics(240, 0, 0, 120),
     Metrics(0, 0, 1, -10), Metrics(600, 0, 0, 90)}

RankInputs ==
    [fn : {"rankVideos"},
     videos : UNION {{[k \in 1..n |-> [id |-> <<"v", k>>, stats |-> f[k]]] :
                        f \in [1..n -> MetricsSet]} : n \in 1..MaxRanked}]

\* every form with a word of 10, 11 and 12 characters, a channel URL and
\* the empty string
ExtractInputs ==
    [fn : {"extractVideoId"},
     url : {Url(f, "A", e) : f \in PatternForms \cup {"bare", "legacy", "channel"},
                            e \in {-1, 0, 1}}
           \cup {Url("empty", "", -1)}]

\* a channel id, the empty string, a bare handle, and URLs with an @
\* segment (last and not last), with a channel segment (last but one, with
\* a tab behind it, with a slash behind it), with a custom name, and with
\* no path
ChannelUrls ==
    LET Prefix == <<"https:", "", "www.youtube.com">>
    IN  {<<ChannelId>>, <<"">>, <<"@handle">>,
         Prefix \o <<"@handle">>, Prefix \o <<"@handle", "videos">>,
         Prefix \o <<"channel", ChannelId>>, Prefix \o <<"channel", ChannelId, "videos">>,
         Prefix \o <<"channel", ChannelId, "">>, Prefix \o <<"c", "name">>,
         Prefix \o <<"">>, Prefix \o <<"channel", "">>}

ResolveInputs ==
    [fn : {"resolveChannelId"}, input : ChannelUrls, search : {"items", "empty", "noItems"}]

appVars ==
    <<keyVars, transcriptProvider, usageVars, results, loading, isProcessComplete, error,
      progress, logs, cancelledIds, isTranscript, runVars, retries, lastCall, runs>>

\* one call of a metadata function, for every input and remote
InitMetadata ==
    /\ OrchestratorIdle
    /\ rIn \in DetailsInputs \cup ChannelInputs \cup BatchInputs \cup RankInputs
                \cup ExtractInputs \cup ResolveInputs
    /\ rOut = [done |-> FALSE]

DetailsCall ==
    /\ ~rOut.done /\ rIn.fn = "getVideoDetails"
    /\ rOut' = [done |-> TRUE, out |-> getVideoDetails(rIn.videoIds, rIn.remote)]
    /\ UNCHANGED <<appVars, rIn>>

ChannelCall ==
    /\ ~rOut.done /\ rIn.fn = "fetchChannelVideos"
    /\ rOut' = [done |-> TRUE, out |-> fetchChannelVideos(rIn.limit, rIn.videoType, rIn.remote)]
    /\ UNCHANGED <<appVars, rIn>>

BatchCall ==
    /\ ~rOut.done /\ rIn.fn = "fetchBatchVideos"
    /\ rOut' = [done |-> TRUE, out |-> fetchBatchVideos(rIn.urls, rIn.remote)]
    /\ UNCHANGED <<appVars, rIn>>

RankCall ==
    /\ ~rOut.done /\ rIn.fn = "rankVideos"
    /\ rOut' = [done |-> TRUE, out |-> rankVideos(rIn.videos)]
    /\ UNCHANGED <<appVars, rIn>>

ExtractCall ==
    /\ ~rOut.done /\ rIn.fn = "extractVideoId"
    /\ rOut' = [done |-> TRUE, out |-> extractVideoId(rIn.url)]
    /\ UNCHANGED <<appVars, rIn>>

ResolveCall ==
    /\ ~rOut.done /\ rIn.fn = "resolveChannelId"
    /\ rOut' = [done |-> TRUE, out |-> resolveChannelId(rIn.input, rIn.search)]
    /\ UNCHANGED <<appVars, rIn>>

NextMetadata == DetailsCall \/ ChannelCall \/ BatchCall \/ RankCall \/ ExtractCall
                    \/ ResolveCall

SpecMetadata == InitMetadata /\ [][NextMetadata]_vars

-----------------------------------------------------------------------------
(* Properties *)

HasMarker(text) ==
    \/ StartsWith(text, <<"Error", ":">>)
    \/ StartsWith(text, <<"API Error", ":">>)
    \/ StartsWith(text, <<"Request Failed", ":">>)

\* the remote delivered no transcript to the call: one of the failures the
\* router contract lists
NoTranscriptObtained(in) ==
    LET response == in.remote.response
        data == response.body.data
    IN  \/ in.provider \notin Providers
        \/ in.apiKey = ""
        \/ response.transport
        \/ ~Ok(response)
        \/ ~response.body.json
        \/ data.kind = "null"
        \/ data.kind = "object" /\ data.content.t \in {"undefined", "null"}
                /\ ~(in.provider = "supadata" /\ OpensJob(response))
        \/ /\ in.provider = "supadata" /\ OpensJob(response)
           /\ \/ in.remote.pending >= maxAttempts
              \/ in.remote.terminal.transport
              \/ ~Ok(in.remote.terminal)
              \/ ~in.remote.terminal.body.json
              \/ in.remote.terminal.body.data.kind = "null"
              \/ in.remote.terminal.body.data.status = "failed"

\* C1: whenever a router call ends without a transcript having been obtained
\* (missing credential, unknown selector, transport failure, HTTP error
\* status, non-JSON body, unexpected response shape, 202 without job id,
\* failed job, poll timeout), the returned text begins with "Error:",
\* "API Error:" or "Request Failed:".
C1_FailuresAreMarked ==
    (rOut.done /\ NoTranscriptObtained(rIn)) => HasMarker(rOut.text)

\* the items the running batch has logged as a success
Successes == Cardinality({k \in 1..Len(logs) : logs[k].msg = "Success"})

InBatch == pc \in {"loop", "delay", "fetch"}

\* the provider's counter, in memory and persisted
CounterIs(provider, val) ==
    /\ val = IF provider = "supadata" THEN supadataUsage ELSE rapidApiUsage
    /\ val = IF provider = "supadata" THEN storage.supadata_usage ELSE storage.rapid_usage

\* the running batch's counter is what its own successes account for: no
\* other write has moved it
CounterInStep ==
    CounterIs(run.transcriptProvider,
              Min(Ceiling(run.transcriptProvider), run.usage + Successes))

\* C2: in a batch run started with the counter at c and with no other write
\* to the counter, every item step keeps the persisted counter equal to
\* min(ceiling, c + successes so far): an item stored as a success raises it
\* by one (clamped), a failed or cancelled item leaves it unchanged.
C2_CounterCountsSuccesses ==
    [][ (InBatch /\ InBatch' /\ i' = i + 1 /\ CounterInStep)
        => /\ CounterInStep'
           /\ Usage(run.transcriptProvider)' =
                IF lastCall'.op = "store" /\ logs'[Len(logs')].msg = "Success"
                THEN Min(Ceiling(run.transcriptProvider), Usage(run.transcriptProvider) + 1)
                ELSE Usage(run.transcriptProvider)
      ]_vars

\* C2 (witness): the run has stored a success for the first item and a 403
\* error for the second, and the counter stands one above its start.
C2_Witness ==
    /\ pc = "loop" /\ i = 3 /\ lastCall.op = "store"
    /\ ~HasMarker(updatedVideos[1].transcript) /\ updatedVideos[1].transcript # Cancelled
    /\ StartsWith(updatedVideos[2].transcript, <<"Error", ":">>)
    /\ "Forbidden" \in {updatedVideos[2].transcript[k] : k \in 1..Len(updatedVideos[2].transcript)}
    /\ CounterIs(run.transcriptProvider, run.usage + 1)

RangeInv ==
    /\ supadataUsage \in 0..100
    /\ rapidApiUsage \in 0..20

\* C3: each counter stays within 0..ceiling under increments and overrides,
\* an increment applied when the count is at the ceiling leaves it
\* unchanged, and an override to v stores min(ceiling, max(0, v)).
C3_LedgerClamped ==
    /\ []RangeInv
    /\ [][ (lastCall'.counted # "" /\ Usage(lastCall'.counted) = Ceiling(lastCall'.counted))
           => UNCHANGED <<supadataUsage, rapidApiUsage>> ]_vars
    /\ [][ lastCall'.op = "handleSave"
           => /\ supadataUsage' = Min(100, Max(0, lastCall'.id[2]))
              /\ rapidApiUsage' = Min(20, Max(0, lastCall'.id[3])) ]_vars

\* the pre-check message that names why the selected provider cannot be used
ProviderRefusal ==
    IF transcriptProvider = "rapid-api"
    THEN IF rapidApiKey = ""
         THEN "Please enter a RapidAPI Key in settings to use the RapidAPI service."
         ELSE "RapidAPI usage limit (20) reached. Reset count in settings or upgrade."
    ELSE IF supadataApiKey = ""
         THEN "Please enter a Supadata API Key in settings to use the Supadata service."
         ELSE "Supadata usage limit (100) reached. Reset count in settings or upgrade."

ProviderUnusable ==
    \/ transcriptProvider = "supadata" /\ (supadataUsage >= 100 \/ supadataApiKey = "")
    \/ transcriptProvider = "rapid-api" /\ (rapidApiUsage >= 20 \/ rapidApiKey = "")

\* C4: handleScrape invoked in transcript mode while the selected provider's
\* counter is at or above its ceiling, or its credential is empty, refuses
\* the run: an error message is set (the provider's own one once the general
\* checks pass), no request is issued, loading is not set, and results,
\* log, progress, cancelled set and both counters are unchanged.
C4_RefusedBeforeStart ==
    [][ (lastCall'.op = "handleScrape" /\ isTranscript /\ ProviderUnusable)
        => /\ IF youtubeApiKey = ""
              THEN error' = "Please enter a YouTube Data API Key in the settings."
              ELSE error' \in {"Please provide the required input.", ProviderRefusal}
           /\ ~loading' /\ pc' = "idle" /\ ~lastCall'.fetch
           /\ UNCHANGED <<results, logs, progress, cancelledIds, supadataUsage,
                          rapidApiUsage, storage, retries, runs>>
      ]_vars

\* C4 (witness): a run was just refused because the supadata counter stands
\* at its ceiling.
C4_Witness ==
    /\ lastCall.op = "handleScrape" /\ isTranscript
    /\ transcriptProvider = "supadata" /\ supadataUsage = 100 /\ supadataApiKey # ""
    /\ error = "Supadata usage limit (100) reached. Reset count in settings or upgrade."
    /\ ~loading /\ pc = "idle"

\* C5: no transcript fetch, of the running batch or of a retry, is dispatched
\* while the counter of the provider it goes to equals its ceiling.
C5_NoFetchWhenExhausted ==
    [][ lastCall'.fetch
        => LET provider == IF lastCall'.op = "fetchTranscript"
                           THEN run.transcriptProvider ELSE transcriptProvider
           IN  (IF provider = "supadata" THEN supadataUsage < 100 ELSE rapidApiUsage < 20)
      ]_vars

\* C6: when the loop reaches an item whose id is in the cancelled set, it
\* issues no fetch for it, publishes its record as "Cancelled", advances the
\* progress, leaves the counters unchanged and goes on to the next item.
C6_CancelledBeforeTurn ==
    [][ (pc = "loop" /\ i <= Len(updatedVideos) /\ updatedVideos[i].id \in cancelledIds)
        => /\ ~lastCall'.fetch /\ pc' = "loop" /\ i' = i + 1
           /\ results'[i].id = updatedVideos[i].id
           /\ results'[i].transcript = <<"Cancelled">>
           /\ progress' = 10 + ((i * 90) \div Len(updatedVideos))
           /\ progress' >= progress
           /\ UNCHANGED <<supadataUsage, rapidApiUsage, storage, currentUsageCount>>
      ]_vars

\* C6 (witness): the loop has just skipped an item that was cancelled while
\* an earlier item was being fetched.
C6_Witness ==
    /\ lastCall.op = "skip" /\ pc = "loop" /\ i = 3
    /\ lastCall.id \in cancelledIds
    /\ results[1].transcript \notin {<<>>, <<"Cancelled">>}
    /\ results[2].transcript = <<"Cancelled">>

\* C7: when the fetch of a batch item returns and the item's id is in the
\* cancelled set, the result is discarded whatever it is: the record is
\* published as "Cancelled", no counter changes, and the loop goes on to the
\* next item.
C7_CancelledInFlight ==
    [][ (pc = "fetch" /\ pc' # "fetch" /\ updatedVideos[i].id \in cancelledIds)
        => /\ results'[i].id = updatedVideos[i].id
           /\ results'[i].transcript = <<"Cancelled">>
           /\ lastCall'.counted = ""
           /\ UNCHANGED <<supadataUsage, rapidApiUsage, storage, currentUsageCount>>
           /\ pc' = "loop" /\ i' = i + 1
      ]_vars

\* C7 (witness): a fetched result was just discarded and another item
\* follows.
C7_Witness ==
    /\ lastCall.op = "discard" /\ pc = "loop" /\ i <= Len(updatedVideos)
    /\ results[i - 1].transcript = <<"Cancelled">>

\* C8: handleRetryVideo invoked while loading is set issues no fetch and
\* leaves results, counters, progress and log unchanged.
C8_NoRetryWhileRunning ==
    [][ (lastCall'.op = "handleRetryVideo" /\ loading)
        => /\ ~lastCall'.fetch
           /\ UNCHANGED <<results, supadataUsage, rapidApiUsage, storage, progress,
                          logs, retries>>
      ]_vars

\* C8 (witness): a retry was invoked, and refused, during a batch run.
C8_Witness ==
    /\ lastCall.op = "handleRetryVideo" /\ loading /\ pc \in {"delay", "fetch"}
    /\ retries = <<>>

\* C9: the steps of a retry of item x (its start and its completion) leave
\* the progress, the log and the sequence of record ids unchanged, and every
\* record other than x keeps all its fields.
C9_RetryTouchesOnlyItsRecord ==
    [][ lastCall'.op \in {"handleRetryVideo", "retryReturn"}
        => /\ progress' = progress /\ logs' = logs
           /\ Len(results') = Len(results)
           /\ \A k \in 1..Len(results) :
                /\ results'[k].id = results[k].id
                /\ results'[k].title = results[k].title
                /\ results[k].id # lastCall'.id => results'[k] = results[k]
      ]_vars

\* C9 (witness): a retry has just replaced its record while another record
\* holds a transcript.
C9_Witness ==
    /\ lastCall.op = "retryReturn"
    /\ \E k, j \in 1..Len(results) :
          /\ results[k].id = lastCall.id /\ results[k].transcript # <<>>
          /\ results[j].id # lastCall.id /\ results[j].transcript # <<>>

\* C10: when a retry's fetch returns and the retried id is in the cancelled
\* set, the result is discarded: the record ends as "Cancelled" and no
\* counter is incremented.
C10_RetryHonoursCancel ==
    [][ (lastCall'.op = "retryReturn" /\ lastCall'.id \in cancelledIds)
        => /\ \A k \in 1..Len(results') :
                results'[k].id = lastCall'.id => results'[k].transcript = <<"Cancelled">>
           /\ UNCHANGED <<supadataUsage, rapidApiUsage, storage>>
      ]_vars

\* C11: within one run (loading set), every update leaves the progress in
\* 0..100 and does not lower it, on every path, aborts included.
C11_ProgressNeverDecreases ==
    [][ loading => (progress' \in 0..100 /\ progress' >= progress) ]_vars

\* C11 (amended): within one run every update leaves the progress in 0..100
\* and does not lower it, except that an abort resets it to 0 in the step
\* that ends the run.
C11_ProgressMonotoneUntilAbort ==
    [][ loading
        => /\ progress' \in 0..100
           /\ \/ progress' >= progress
              \/ lastCall'.op = "abort" /\ progress' = 0 /\ ~loading' /\ error' # ""
      ]_vars

\* C11 (witness): a run of two items has stored the first and stands at 55.
C11_Witness ==
    /\ loading /\ pc = "loop" /\ i = 2 /\ Len(updatedVideos) = 2
    /\ progress = 55 /\ lastCall.op = "store"

\* C13: when a batch transcript run completes, no record is left with an
\* empty transcript: each holds a success text, an error-marked text or
\* "Cancelled", whatever the provider answered.
C13_EveryTranscriptSet ==
    lastCall.op = "complete"
        => \A k \in 1..Len(results) : results[k].transcript # <<>>

InMetadata == pc \in {"resolveChannelId", "search", "getVideoDetails"}

LogCount(msg) == Cardinality({k \in 1..Len(logs) : logs[k].msg = msg})

\* C14: a run that ends in identifier resolution or metadata acquisition
\* (input that resolves to nothing, channel not found, search error, request
\* failure, zero records) is aborted: one error message is surfaced, the
\* progress is 0, loading is cleared, the completion flag is not set, the
\* published results are empty, the run has issued no transcript fetch and
\* counted no success, and the step changes no usage counter.
C14_MetadataFailureAborts ==
    [][ (lastCall'.op = "abort" \/ (InMetadata /\ pc' = "idle" /\ ~isProcessComplete'))
        => /\ lastCall'.op = "abort" /\ ~lastCall'.fetch /\ lastCall'.counted = ""
           /\ error' # "" /\ LogCount("ERROR")' = 1
           /\ progress' = 0 /\ ~loading' /\ pc' = "idle"
           /\ ~isProcessComplete'
           /\ results' = <<>>
           /\ LogCount("Fetching transcript...")' = 0 /\ LogCount("Success")' = 0
           /\ UNCHANGED <<supadataUsage, rapidApiUsage, storage>>
      ]_vars

\* C14 (witness): a single-channel run was aborted after the channel search
\* found nothing.
C14_Witness ==
    /\ lastCall.op = "abort" /\ error = "Channel not found for handle"
    /\ progress = 0 /\ ~loading /\ results = <<>> /\ runs = 1

-----------------------------------------------------------------------------
(* Properties of the router's asynchronous flow *)

\* the call reaches the asynchronous provider and its initial response opens
\* a job
JobOpened == rIn.provider = "supadata" /\ rIn.apiKey # "" /\ OpensJob(rIn.remote.response)

\* the k-th job-status response is a JSON object whose status is neither
\* completed nor failed, under a status code that is no HTTP error
StillPending(k) ==
    LET response == PollResponse(rIn.remote, k)
    IN  /\ ~response.transport
        /\ response.status \notin {401, 403, 404, 500, 502}
        /\ response.body.json
        /\ response.body.data.kind = "object"
        /\ response.body.data.status \notin {"completed", "failed"}

TimedOut == <<"Error", ":", " ", "Supadata transcription timed out.">>

\* C15: a router call issues at most 30 job-status requests, and when none of
\* the first 30 responses is completed, failed or an HTTP error it returns
\* the error-marked timeout text after exactly 30 requests (no 31st).
C15_PollLoopBounded ==
    rOut.done
        => /\ rOut.requests <= 30
           /\ (JobOpened /\ \A k \in 1..30 : StillPending(k))
                => /\ rOut.requests = 30
                   /\ HasMarker(rOut.text)
                   /\ rOut.text = TimedOut

\* C15 (witness): a job stayed queued for more than 30 polls and the call
\* ended with the timeout text.
C15_Witness ==
    /\ rOut.done /\ JobOpened /\ rIn.remote.pending > 30
    /\ rOut.requests = 30 /\ rOut.text = TimedOut

\* the text a completed job's content is published as
PolledText(content) ==
    IF content = CString(<<"polled", " ", " ", "text">>) THEN <<"polled", " ", "text">>
    ELSE <<>>

\* the last job-status response the remote has prepared is a JSON object
\* with the given job status, and the loop gets to it
SettlesAs(status) ==
    /\ rIn.remote.pending < 30
    /\ ~rIn.remote.terminal.transport
    /\ rIn.remote.terminal.status = 200
    /\ rIn.remote.terminal.body.json
    /\ rIn.remote.terminal.body.data.kind = "object"
    /\ rIn.remote.terminal.body.data.status = status

\* C16: in the 202 flow the first terminal job-status response decides the
\* result.  If poll k (k <= 30) is the first with status completed, the
\* result is that poll's normalized content, not the content of the 202 body,
\* and k requests were issued; if it is the first with status failed, the
\* result is "Error: " followed by the job's error (a default text when it
\* reports none), after k requests; every response with another status is
\* followed by exactly one more poll, up to the 30th.
C16_FirstTerminalPollDecides ==
    (rOut.done /\ JobOpened)
        => LET k == rIn.remote.pending + 1
               data == rIn.remote.terminal.body.data
           IN  /\ SettlesAs("completed")
                    => rOut.text = PolledText(data.content) /\ rOut.requests = k
               /\ SettlesAs("failed")
                    => /\ HasMarker(rOut.text)
                       /\ rOut.text = <<"Error", ":", " ">> \o
                              (IF data.error # <<>> THEN data.error
                               ELSE <<"Supadata transcription job failed.">>)
                       /\ rOut.requests = k
               /\ SettlesAs("active") => rOut.requests = 30 /\ rOut.text = TimedOut
               /\ rOut.requests = Min(k, 30) \/ SettlesAs("active")

\* C16 (witness): the 202 body carried content of its own, the job was queued
\* at the first poll and completed at the second, and the call returned the
\* second poll's content.
C16_Witness ==
    /\ rOut.done /\ JobOpened /\ SettlesAs("completed")
    /\ rIn.remote.response.body.data.content = CArray(Segments)
    /\ rIn.remote.pending = 1
    /\ rOut.text = <<"polled", " ", "text">> /\ rOut.requests = 2

\* the remote answers the call with the given HTTP status, at the initial
\* request or at the job-status request that ends the polling
RejectedWith(status) ==
    /\ rIn.provider \in Providers /\ rIn.apiKey # ""
    /\ \/ ~rIn.remote.response.transport /\ rIn.remote.response.status = status
       \/ /\ JobOpened /\ rIn.remote.pending < 30
          /\ ~rIn.remote.terminal.transport /\ rIn.remote.terminal.status = status

Mentions(text, word) == \E k \in 1..Len(text) : text[k] = word

\* C17: a 401 from either provider, at the initial request or at a poll,
\* gives a result that begins with "Error:" and contains "Unauthorized", a
\* 403 one that begins with "Error:" and contains "Forbidden"; the item is
\* then stored as a failure and no usage counter is incremented.
C17_AuthFailuresAreErrors ==
    rOut.done
        => \A status \in {401, 403} :
              RejectedWith(status)
                => /\ StartsWith(rOut.text, <<"Error", ":">>)
                   /\ Mentions(rOut.text, IF status = 401 THEN "Unauthorized" ELSE "Forbidden")
                   /\ retries = <<>>
                        => /\ lastCall.op = "retryReturn" /\ lastCall.counted = ""
                           /\ results[1].transcript = rOut.text
                           /\ IsErrorRow(1)
                           /\ supadataUsage = 0 /\ rapidApiUsage = 0
                           /\ storage = [supadata_usage |-> 0, rapid_usage |-> 0]

\* C17 (witness): a job-status request was answered 401 and the item was
\* stored as a failure.
C17_Witness ==
    /\ rOut.done /\ JobOpened /\ RejectedWith(401)
    /\ rIn.remote.response.status = 202
    /\ retries = <<>> /\ lastCall.op = "retryReturn"
    /\ Mentions(results[1].transcript, "Unauthorized")
    /\ supadataUsage = 0

-----------------------------------------------------------------------------
(* Properties of metadata acquisition *)

RECURSIVE Flatten(_)
Flatten(seqs) == IF seqs = <<>> THEN <<>> ELSE Head(seqs) \o Flatten(Tail(seqs))

IdsOf(videos) == [k \in 1..Len(videos) |-> videos[k].id]

\* C18: getVideoDetails given n ids issues requests of at most 50 ids each
\* that take the ids in input order, never more than ceil(n/50) of them; a
\* call that returns has issued exactly ceil(n/50) (none for n = 0; 50, 50
\* and 20 ids for n = 120), the requests partition the input, the output is
\* the items of the responses in request order, and every record has an
\* empty transcript.
C18_DetailsInChunksOf50 ==
    (rOut.done /\ rIn.fn = "getVideoDetails")
        => LET n == Len(rIn.videoIds)
               out == rOut.out
               asked == Flatten(out.requests)
               answered(id) ==
                   /\ rIn.remote.drop = 0 \/ id[2] % rIn.remote.drop # 0
                   /\ ((id[2] - 1) \div 50) + 1 # rIn.remote.noItems
           IN  /\ Len(out.requests) <= (n + 49) \div 50
               /\ \A j \in 1..Len(out.requests) : Len(out.requests[j]) \in 1..50
               /\ asked = SubSeq(rIn.videoIds, 1, Len(asked))
               /\ \A k \in 1..Len(out.videos) : out.videos[k].transcript = <<>>
               /\ ~out.threw
                    => /\ Len(out.requests) = (n + 49) \div 50
                       /\ asked = rIn.videoIds
                       /\ IdsOf(out.videos) = SelectSeq(rIn.videoIds, answered)
               /\ n = 0 => ~out.threw /\ out.requests = <<>> /\ out.videos = <<>>
               /\ (n = 120 /\ ~out.threw)
                    => [j \in 1..3 |-> Len(out.requests[j])] = <<50, 50, 20>>

\* C18 (witness): 120 ids were fetched in three requests, and the endpoint
\* had no item for every third id.
C18_Witness ==
    /\ rOut.done /\ rIn.fn = "getVideoDetails" /\ Len(rIn.videoIds) = 120
    /\ ~rOut.out.threw /\ Len(rOut.out.requests) = 3 /\ Len(rOut.out.requests[3]) = 20
    /\ rIn.remote.drop = 3 /\ rIn.remote.noItems = 0 /\ Len(rOut.out.videos) = 80

\* the seconds of the duration the endpoint reports for an id: PT1M, PT1M1S,
\* PT59S, PT1H, and 0 for P1DT1S, which the parser does not match
SecondsOf(id) ==
    CASE id[2] % 5 = 0 -> 60
      [] id[2] % 5 = 1 -> 61
      [] id[2] % 5 = 2 -> 59
      [] id[2] % 5 = 3 -> 3600
      [] id[2] % 5 = 4 -> 0

Fits(videoType, seconds) ==
    /\ videoType = "short" => seconds <= 60
    /\ videoType = "video" => seconds > 60

\* C19: fetchChannelVideos returns at most limit records, each of the
\* requested type by its parsed duration (<= 60 s for "short", > 60 s for
\* "video", any for "any"); they are the first limit matching records in the
\* order the details came in; and the search asks for min(50, max(3*limit,
\* 20)) results.
C19_ChannelVideosFiltered ==
    (rOut.done /\ rIn.fn = "fetchChannelVideos")
        => LET out == rOut.out
               found == Min(out.maxResults, rIn.remote.total)
               matching == {k \in 1..found :
                              /\ rIn.remote.videos.drop = 0 \/ k % rIn.remote.videos.drop # 0
                              /\ Fits(rIn.videoType, SecondsOf(<<"v", k>>))}
               returned == {out.videos[k].id[2] : k \in 1..Len(out.videos)}
           IN  /\ Len(out.videos) <= rIn.limit
               /\ \A k \in 1..Len(out.videos) :
                    /\ parseDurationToSeconds(out.videos[k].duration) = SecondsOf(out.videos[k].id)
                    /\ Fits(rIn.videoType, SecondsOf(out.videos[k].id))
               /\ rIn.remote.resolves => out.maxResults = Min(50, Max(3 * rIn.limit, 20))
               /\ \A k \in 1..(Len(out.videos) - 1) : out.videos[k].id[2] < out.videos[k + 1].id[2]
               /\ (~out.threw /\ rIn.remote.search = "items")
                    => /\ returned \subseteq matching
                       /\ \A c \in matching, r \in returned : c < r => c \in returned
                       /\ Len(out.videos) = Min(rIn.limit, Cardinality(matching))

\* C19 (witness): with limit 5 and type "short" a channel of 60 videos gave 5
\* records, the third of them 60 seconds long.
C19_Witness ==
    /\ rOut.done /\ rIn.fn = "fetchChannelVideos"
    /\ rIn.limit = 5 /\ rIn.videoType = "short" /\ rIn.remote.total = 60
    /\ rOut.out.maxResults = 20 /\ Len(rOut.out.videos) = 5
    /\ \E k \in 1..5 : parseDurationToSeconds(rOut.out.videos[k].duration) = 60

\* C20: fetchBatchVideos hands to getVideoDetails exactly the distinct ids
\* its inputs resolve to, each once, dropping the inputs that resolve to
\* none; when no input resolves it fails with the no-valid-ids error and
\* issues no request.
C20_BatchIdsDistinct ==
    (rOut.done /\ rIn.fn = "fetchBatchVideos")
        => LET out == rOut.out
               asked == Flatten(out.requests)
               resolvable == {extractVideoId(rIn.urls[k]) : k \in 1..Len(rIn.urls)} \ {NoVideoId}
           IN  IF resolvable = {}
               THEN /\ out.threw /\ out.requests = <<>> /\ out.videos = <<>>
                    /\ out.message = "No valid YouTube video IDs found. Check your links (Supports: watch, shorts, share links)."
               ELSE /\ {asked[k] : k \in 1..Len(asked)} = resolvable
                    /\ Len(asked) = Cardinality(resolvable)
                    /\ Len(out.requests) = 1
                    /\ ~out.threw => IdsOf(out.videos) = asked

\* C20 (witness): three different URLs of the same video, and one id fetched.
C20_Witness ==
    /\ rOut.done /\ rIn.fn = "fetchBatchVideos" /\ Len(rIn.urls) = 3
    /\ rIn.urls[1] # rIn.urls[2] /\ rIn.urls[2] # rIn.urls[3] /\ rIn.urls[1] # rIn.urls[3]
    /\ \A k \in 1..3 : extractVideoId(rIn.urls[k]) = <<"A", 11>>
    /\ ~rOut.out.threw /\ rOut.out.requests = <<(<< <<"A", 11>> >>)>>
    /\ Len(rOut.out.videos) = 1

\* the place of a record of the ranking's input, by its id
PlaceOf(videos, id) == CHOOSE k \in 1..Len(videos) : videos[k].id = id

\* C21: the ranked sequence is a permutation of the metadata records, in
\* non-increasing order of (views + 5 likes + 10 comments) per hour of age;
\* records of equal score keep their input order; and no score divides by
\* less than one hour.
C21_RankedStableDescending ==
    (rOut.done /\ rIn.fn = "rankVideos")
        => LET in == rIn.videos
               out == rOut.out
               n == Len(in)
               Points(k) == out[k].stats.viewCount + 5 * out[k].stats.likeCount
                              + 10 * out[k].stats.commentCount
               Age(k) == out[k].viralityScore.minutes
           IN  /\ Len(out) = n
               /\ {out[k].id : k \in 1..n} = {in[k].id : k \in 1..n}
               /\ \A k \in 1..n : out[k].stats = in[PlaceOf(in, out[k].id)].stats
               /\ \A k \in 1..n :
                    /\ out[k].viralityScore.points = Points(k)
                    /\ Age(k) >= 60 /\ Age(k) >= out[k].stats.ageMinutes
                    /\ Age(k) \in {60, out[k].stats.ageMinutes}
               /\ \A j, k \in 1..n :
                    j < k => /\ Points(j) * Age(k) >= Points(k) * Age(j)
                             /\ Points(j) * Age(k) = Points(k) * Age(j)
                                  => PlaceOf(in, out[j].id) < PlaceOf(in, out[k].id)

\* C21 (witness): three records scoring 120 an hour, one of them thirty
\* minutes old, came in behind a lower-scoring one and went out ahead of it
\* in their input order.
C21_Witness ==
    /\ rOut.done /\ rIn.fn = "rankVideos" /\ Len(rIn.videos) = 3
    /\ rIn.videos[1].stats = Metrics(0, 0, 1, -10)
    /\ rIn.videos[2].stats = Metrics(240, 0, 0, 120)
    /\ rIn.videos[3].stats = Metrics(120, 0, 0, 30)
    /\ rOut.out[1].id = <<"v", 2>> /\ rOut.out[2].id = <<"v", 3>>
    /\ rOut.out[3].id = <<"v", 1>>

\* the items the loop of the current run is through with, by its log
FinishedItems ==
    {logs[k].item : k \in {j \in 1..Len(logs) :
        logs[j].msg \in {"Skipped (Cancelled)", "Result discarded (Cancelled)",
                         "Failed", "Success"}}}

\* C22: the loop dispatches a transcript fetch only while none of its
\* fetches is in flight, and the fetch is for the first record the loop is
\* not through with: every record before it has had its result published,
\* and no record behind it has.
C22_LoopIsSequential ==
    [][lastCall'.op = "fetchTranscript"
         => /\ pc # "fetch" /\ pc' = "fetch"
            /\ \E k \in 1..Len(results) :
                 /\ lastCall'.id = results[k].id
                 /\ FinishedItems = 1..(k - 1)]_vars

\* C22 (witness): the fetch for the second item is in flight, and the first
\* item's transcript has been published.
C22_Witness ==
    /\ pc = "fetch" /\ lastCall.op = "fetchTranscript" /\ lastCall.id = VideoIds[2]
    /\ Len(results) = 2 /\ results[1].transcript = <<"hello", " ", "world">>
    /\ results[2].transcript = <<>>

\* C23: during a batch run every publication by the loop carries, for each
\* item the loop is through with, the final transcript the loop published
\* for it, and publishes the current item's own; a cancellation publishes
\* the finished items' transcripts as they are.
C23_PublishedResultsKept ==
    [][InBatch
         => /\ lastCall'.op \in {"skip", "discard", "store"}
                 => /\ results'[i].transcript = updatedVideos'[i].transcript
                    /\ \A k \in 1..(i - 1) :
                         updatedVideos[k].transcript # <<>>
                            => /\ updatedVideos'[k].transcript = updatedVideos[k].transcript
                               /\ results'[k].transcript = updatedVideos[k].transcript
            /\ lastCall'.op = "handleCancelVideo"
                 => \A k \in 1..(i - 1) :
                         results[k].transcript # <<>>
                            => results'[k].transcript = results[k].transcript]_vars

\* C23 (witness): the loop published the second item's transcript, and the
\* first item's error is still in the published sequence.
C23_Witness ==
    /\ lastCall.op = "store" /\ lastCall.id = VideoIds[2] /\ Len(results) = 2
    /\ isError(results[1].transcript)
    /\ results[2].transcript = <<"hello", " ", "world">>

\* C24: extractVideoId returns the 11-character word of a watch, shorts,
\* embed, v, live or short-link URL, of a bare 11-character word and of a
\* ?v= / &v= query; it returns null for the empty string, for a word of
\* fewer than 11 characters in any form, for a bare word of another length
\* and for any other string; and what it returns is null or 11 characters
\* long.
C24_ExtractVideoId ==
    (rOut.done /\ rIn.fn = "extractVideoId")
        => LET url == rIn.url
               out == rOut.out
           IN  /\ (url.form \in {"watch", "shorts", "embed", "v", "live", "youtu.be",
                                 "bare", "legacy"} /\ url.extra = 0)
                     => out = <<url.name, 11>>
               /\ (\/ url.form \notin {"watch", "shorts", "embed", "v", "live", "youtu.be",
                                       "bare", "legacy"}
                   \/ url.extra < 0
                   \/ url.form = "bare" /\ url.extra # 0)
                     => out = NoVideoId
               /\ out # NoVideoId => out[2] = 11

\* C24 (witness): a youtube.com/v/ URL gave its 11-character word.
C24_Witness ==
    /\ rOut.done /\ rIn.fn = "extractVideoId"
    /\ rIn.url = Url("v", "A", 0) /\ rOut.out = <<"A", 11>>

\* the counter of a provider after the step
UsageAfter(provider) == IF provider = "supadata" THEN supadataUsage' ELSE rapidApiUsage'

\* C25: a step that counts a success (of a batch item or of a retry) leaves
\* the provider's counter one above the value it had just before the step,
\* or at the ceiling.
C25_NoLostIncrement ==
    [][lastCall'.counted # ""
         => UsageAfter(lastCall'.counted)
              = Min(Ceiling(lastCall'.counted), Usage(lastCall'.counted) + 1)]_vars

\* C26: while a batch run is going on, a record that has been cancelled and
\* published as "Cancelled" is published as "Cancelled" by every later step.
C26_CancelledStaysCancelled ==
    [][\A k \in 1..Len(results) :
         (/\ InBatch /\ loading'
          /\ results[k].id \in cancelledIds
          /\ results[k].transcript = Cancelled)
            => results'[k].transcript = Cancelled]_vars

\* C27: a retry counts the router's result as a failure (no usage counted)
\* exactly when the result begins with "Error:", "API Error:" or "Request
\* Failed:"; any other result is stored as a success and counted.
C27_ClassifiedByMarker ==
    (rOut.done /\ lastCall.op = "retryReturn")
        => /\ results[1].transcript = rOut.text
           /\ (lastCall.counted = "") <=> HasMarker(rOut.text)

\* the cancellations the log of the current run records
CancelledInRun ==
    {logs[k].id : k \in {j \in 1..Len(logs) :
        logs[j].msg = "Cancelled transcription for video ID"}}

\* C28: a run starts with an empty cancelled set, whatever an earlier run
\* or a retry left in it, and the loop skips an item or discards its result
\* only if the item was cancelled after the run started.
C28_CancelledSetPerRun ==
    [][/\ runs' # runs => cancelledIds' = {}
       /\ lastCall'.op \in {"skip", "discard"} => lastCall'.id \in CancelledInRun]_vars

\* C28 (witness): the id cancelled in the run before is in the new run, and
\* its transcript is being fetched.
C28_Witness ==
    /\ runs = 1 /\ pc = "fetch"
    /\ lastCall.op = "fetchTranscript" /\ lastCall.id = VideoIds[1]
    /\ cancelledIds = {}

\* the handle the stated priority picks from the parts of a URL: the first
\* part that starts with '@', else the part behind "channel", else the last
PriorityHandle(parts) ==
    LET ats == {k \in 1..Len(parts) : parts[k] \in {"@handle", "@other"}}
        channels == {k \in 1..(Len(parts) - 1) : parts[k] = "channel"}
    IN  IF ats # {} THEN parts[CHOOSE k \in ats : \A j \in ats : k <= j]
        ELSE IF channels # {} THEN parts[(CHOOSE k \in channels : \A j \in channels : k <= j) + 1]
        ELSE parts[Len(parts)]

IsUrl(parts) == \E k \in 1..(Len(parts) - 1) : parts[k] = "www.youtube.com"

\* C29: resolveChannelId returns a channel id as it is, without a search;
\* of a URL it searches for the first '@' segment, else for the segment
\* behind "channel", else for the last segment; it fails with the
\* invalid-input error when that handle is empty and with the not-found
\* error when the search has no result.
C29_HandlePriority ==
    (rOut.done /\ rIn.fn = "resolveChannelId")
        => LET out == rOut.out
           IN  /\ rIn.input = <<ChannelId>>
                    => ~out.threw /\ out.channelId = ChannelId /\ out.query = NoQuery
               /\ IsUrl(rIn.input)
                    => IF PriorityHandle(rIn.input) = ""
                       THEN /\ out.threw /\ out.query = NoQuery
                            /\ out.message = "Invalid channel URL or handle"
                       ELSE /\ out.query = <<PriorityHandle(rIn.input)>>
                            /\ out.threw <=> rIn.search # "items"
                            /\ out.threw => out.message = "Channel not found for handle"

\* the text of a string content with its whitespace collapsed and trimmed,
\* and of an array content with its segments joined by single spaces
NormalizedContent(content) ==
    CASE content = CString(<<>>) -> <<>>
      [] content = CString(<<" ", "hello", " ", "\n", "world">>) -> <<"hello", " ", "world">>
      [] content = CString(<<"Error", " ", "talk">>) -> <<"Error", " ", "talk">>
      [] content = CArray(<<>>) -> <<>>
      [] content = CArray(Segments) -> <<"hello", " ", "world">>

\* C30: with either provider and a credential, a 200 response with a JSON
\* object whose content is a string or an array of segments makes the
\* router return the normalized content.
C30_ContentNormalized ==
    (/\ rOut.done /\ rIn.provider \in Providers /\ rIn.apiKey # ""
     /\ ~rIn.remote.response.transport /\ rIn.remote.response.status = 200
     /\ rIn.remote.response.body.json
     /\ rIn.remote.response.body.data.kind = "object"
     /\ rIn.remote.response.body.data.content.t \in {"string", "array"})
        => rOut.text = NormalizedContent(rIn.remote.response.body.data.content)

====
